---- MODULE Spec2Model ----
(***************************************************************************)
(* Transaction analytics engine of dashboard_financeiro_AI:                *)
(*   - FinancialCategorizer (src/src/llm_categorizer.py): cache-backed     *)
(*     categorization with an optional LLM classifier and a rule table;    *)
(*   - FinancialAnalyzer (src/src/advanced_analytics.py): data             *)
(*     preparation, anomaly alerts, predictions, health score, report;     *)
(*   - DataProcessor (src/src/data_processor.py): the legacy normalizer;   *)
(*   - process_financial_data (src/dashboard.py): the dashboard's          *)
(*     normalizer, with its column mapping and fixed-cost marking;         *)
(*   - Config (src/config/settings.py): the pattern table and the health   *)
(*     classification it duplicates.                                       *)
(*                                                                         *)
(* Text is a sequence of one-character strings, so that lower(), strip()   *)
(* and the substring test "kw in desc" are computed character by           *)
(* character.  Money handed to the categorizer is an integer number of     *)
(* cents (the float 10.50 is 1050); the amounts of the analyzer are        *)
(* integers in currency units, and every ratio the code computes in        *)
(* floating point (means, shares, rates, deviations, quantiles) is         *)
(* computed here exactly, by cross-multiplication.                         *)
(***************************************************************************)
EXTENDS Integers, Sequences, FiniteSets, TLC

VARIABLES
  \* ---- FinancialCategorizer ----
  alive,        \* TRUE iff __init__ returned a categorizer object
  chain,        \* self.chain is set (an LLM classifier is configured)
  cache,        \* self.cache: cache key -> category
  cache_file,   \* contents of categorization_cache.json (NoFile if absent)
  ret,          \* what the last categorizer call was given and returned
  first_answer, \* history: (normalized description, bucket) -> the category
                \* this categorizer returned for it first
  \* ---- FinancialAnalyzer / DataProcessor ----
  raw,          \* the DataFrame handed in by the caller
  pc,           \* "loaded", then "prepared", "empty" or "failed" (analyzer),
                \* "processed" or "failed" (process_data), "cleaned" or
                \* "stopped" (process_financial_data)
  df,           \* self.df after _prepare_data (or the normalizer's result)
  out           \* the value returned by the last analysis call

catVars == <<alive, chain, cache, cache_file, ret, first_answer>>
anVars  == <<raw, pc, df, out>>
vars    == <<alive, chain, cache, cache_file, ret, first_answer,
             raw, pc, df, out>>

None == "None"

(***************************************************************************)
(* Text helpers: str.lower(), str.strip(), "kw in s", "".join, "%d".       *)
(***************************************************************************)
Whitespace == {" ", "\t", "\n"}

UpperCase ==
  <<"A","B","C","D","E","F","G","H","I","J","K","L","M",
    "N","O","P","Q","R","S","T","U","V","W","X","Y","Z","Ç","Ã","Ú","É","Á">>

LowerCase ==
  <<"a","b","c","d","e","f","g","h","i","j","k","l","m",
    "n","o","p","q","r","s","t","u","v","w","x","y","z","ç","ã","ú","é","á">>

LowerChar(c) ==
  IF \E i \in 1..Len(UpperCase) : UpperCase[i] = c
  THEN LowerCase[CHOOSE i \in 1..Len(UpperCase) : UpperCase[i] = c]
  ELSE c

Lower(s) == [i \in 1..Len(s) |-> LowerChar(s[i])]

RECURSIVE LStrip(_)
LStrip(s) ==
  IF s # <<>> /\ Head(s) \in Whitespace THEN LStrip(Tail(s)) ELSE s

RECURSIVE RStrip(_)
RStrip(s) ==
  IF s # <<>> /\ s[Len(s)] \in Whitespace
  THEN RStrip(SubSeq(s, 1, Len(s) - 1))
  ELSE s

Strip(s) == RStrip(LStrip(s))

\* Python's "kw in s" on strings
Contains(s, kw) ==
  \E i \in 0..(Len(s) - Len(kw)) : SubSeq(s, i + 1, i + Len(kw)) = kw

\* the Python str a sequence of characters spells
RECURSIVE Flatten(_)
Flatten(t) == IF t = <<>> THEN "" ELSE Head(t) \o Flatten(Tail(t))

DigitChar == <<"0","1","2","3","4","5","6","7","8","9">>

RECURSIVE Digits(_)
Digits(n) ==
  IF n < 10 THEN DigitChar[n + 1]
  ELSE Digits(n \div 10) \o DigitChar[(n % 10) + 1]

Abs(x) == IF x < 0 THEN -x ELSE x

Min(S) == CHOOSE x \in S : \A y \in S : x <= y

\* f"{v:.0f}" of a non-negative amount given in cents: the nearest unit,
\* a tie going to the even unit (10.50 -> 10, 11.50 -> 12)
RoundHalfEven(cents) ==
  LET q == cents \div 100
      r == cents % 100
  IN  IF r > 50 THEN q + 1
      ELSE IF r < 50 THEN q
      ELSE IF q % 2 = 0 THEN q ELSE q + 1

(***************************************************************************)
(* FinancialCategorizer                                                    *)
(***************************************************************************)
categories ==
  { "Alimentação", "Receitas", "Saúde", "Mercado", "Educação", "Compras",
    "Transporte", "Investimento", "Transferências para terceiros",
    "Telefone", "Moradia", "Entretenimento", "Lazer", "Outros" }

\* the rule table of _rule_based_categorization, in dict (insertion) order
rules ==
  << [category |-> "Receitas", keywords |-> <<
        <<"s","a","l","a","r","i","o">>,
        <<"p","i","x"," ","-"," ","r","e","c","e","b","i","d","o">>,
        <<"t","r","a","n","s","f","e","r","e","n","c","i","a"," ","r","e","c","e","b","i","d","a">>,
        <<"r","e","c","e","i","t","a">>
     >>],
     [category |-> "Moradia", keywords |-> <<
        <<"f","e","r","r","e","i","r","a"," ","i","m","o","v","e","i","s">>,
        <<"a","l","u","g","u","e","l">>,
        <<"c","o","n","d","o","m","i","n","i","o">>,
        <<"i","p","t","u">>,
        <<"l","u","z">>,
        <<"e","n","e","r","g","i","a">>
     >>],
     [category |-> "Alimentação", keywords |-> <<
        <<"r","e","s","t","a","u","r","a","n","t","e">>,
        <<"l","a","n","c","h","o","n","e","t","e">>,
        <<"p","a","d","a","r","i","a">>,
        <<"a","ç","o","u","g","u","e">>,
        <<"p","a","r","r","i","l","l","a">>,
        <<"b","u","r","g","u","e","r">>,
        <<"p","i","z","z","a">>
     >>],
     [category |-> "Mercado", keywords |-> <<
        <<"s","u","p","e","r","m","e","r","c","a","d","o">>,
        <<"m","e","r","c","a","d","o">>,
        <<"a","t","a","c","a","d","a","o">>,
        <<"b","i","s","t","e","k">>,
        <<"z","a","f","f","a","r","i">>
     >>],
     [category |-> "Transporte", keywords |-> <<
        <<"p","o","s","t","o">>,
        <<"c","o","m","b","u","s","t","i","v","e","l">>,
        <<"u","b","e","r">>,
        <<"t","a","x","i">>,
        <<"o","n","i","b","u","s">>,
        <<"m","e","t","r","o">>,
        <<"e","s","t","a","c","i","o","n","a","m","e","n","t","o">>
     >>],
     [category |-> "Saúde", keywords |-> <<
        <<"f","a","r","m","a","c","i","a">>,
        <<"d","r","o","g","a","r","i","a">>,
        <<"p","a","n","v","e","l">>,
        <<"u","n","i","m","e","d">>,
        <<"m","e","d","i","c","o">>,
        <<"h","o","s","p","i","t","a","l">>
     >>],
     [category |-> "Educação", keywords |-> <<
        <<"e","s","c","o","l","a">>,
        <<"u","n","i","v","e","r","s","i","d","a","d","e">>,
        <<"c","u","r","s","o">>,
        <<"m","e","n","s","a","l","i","d","a","d","e">>,
        <<"l","i","v","r","o">>,
        <<"m","a","t","e","r","i","a","l">>
     >>],
     [category |-> "Telefone", keywords |-> <<
        <<"c","l","a","r","o">>,
        <<"t","i","m">>,
        <<"v","i","v","o">>,
        <<"o","i">>,
        <<"t","e","l","e","f","o","n","e">>,
        <<"c","e","l","u","l","a","r">>
     >>],
     [category |-> "Compras", keywords |-> <<
        <<"l","o","j","a">>,
        <<"m","a","g","a","z","i","n","e">>,
        <<"s","h","o","p","p","i","n","g">>,
        <<"r","e","n","n","e","r">>,
        <<"m","e","r","c","a","d","o","l","i","v","r","e">>
     >>],
     [category |-> "Entretenimento", keywords |-> <<
        <<"c","i","n","e","m","a">>,
        <<"t","e","a","t","r","o">>,
        <<"s","h","o","w">>,
        <<"n","e","t","f","l","i","x">>,
        <<"s","p","o","t","i","f","y">>
     >>],
     [category |-> "Transferências para terceiros", keywords |-> <<
        <<"p","i","x"," ","-"," ","e","n","v","i","a","d","o">>,
        <<"t","e","d">>,
        <<"t","r","a","n","s","f","e","r","e","n","c","i","a">>
     >>] >>

\* mutant of RuleBasedCategorization: the last matching category wins
RuleBasedCategorization_LastMatch(description, value) ==
  LET desc_lower == Lower(description)
      hits == { i \in 1..Len(rules) :
                  \E j \in 1..Len(rules[i].keywords) :
                     Contains(desc_lower, rules[i].keywords[j]) }
  IN  IF hits = {} THEN "Outros"
      ELSE rules[CHOOSE i \in hits : \A k \in hits : k <= i].category

\* _rule_based_categorization: the first category, in table order, one of
\* whose keywords is a substring of the lower-cased description
RuleBasedCategorization(description, value) ==
  LET desc_lower == Lower(description)
      hits == { i \in 1..Len(rules) :
                  \E j \in 1..Len(rules[i].keywords) :
                     Contains(desc_lower, rules[i].keywords[j]) }
  IN  IF hits = {} THEN "Outros" ELSE rules[Min(hits)].category

\* mutant of CreateCacheKey: the description is not lower-cased
CreateCacheKey_NoLower(description, value) ==
  Flatten(Strip(description)) \o "_" \o Digits(RoundHalfEven(Abs(value)))

\* _create_cache_key: f"{description.lower().strip()}_{abs(value):.0f}"
CreateCacheKey(description, value) ==
  Flatten(Strip(Lower(description))) \o "_" \o Digits(RoundHalfEven(Abs(value)))

\* An outcome of self.chain.invoke: it raises, or returns a text.
Raises == [raises |-> TRUE, text |-> <<>>]
Returns(t) == [raises |-> FALSE, text |-> t]

\* mutant of LLMCategory: the response is not validated against the list
LLMCategory_Unvalidated(description, value, outcome) ==
  IF outcome.raises
  THEN RuleBasedCategorization(description, value)
  ELSE Flatten(Strip(outcome.text))

\* mutant of LLMCategory: a failed or invalid classification gives the
\* default category instead of going through the rule table
LLMCategory_DefaultOnFailure(description, value, outcome) ==
  IF outcome.raises
  THEN "Outros"
  ELSE LET category == Flatten(Strip(outcome.text))
       IN  IF category \notin categories THEN "Outros" ELSE category

\* the else-branch of categorize_single (a classifier is configured):
\* invoke, strip, validate against self.categories, fall back to the rules
LLMCategory(description, value, outcome) ==
  IF outcome.raises
  THEN RuleBasedCategorization(description, value)
  ELSE LET category == Flatten(Strip(outcome.text))
       IN  IF category \notin categories
           THEN RuleBasedCategorization(description, value)
           ELSE category

\* mutant of CategorizeSingle: a cached answer is not used, the new answer
\* replaces it
CategorizeSingle_Refresh(c, ch, description, value, outcome) ==
  LET cache_key == CreateCacheKey(description, value)
      category  == IF ~ch
                   THEN RuleBasedCategorization(description, value)
                   ELSE LLMCategory(description, value, outcome)
  IN  [category |-> category,
       cache    |-> [k \in DOMAIN c \cup {cache_key} |->
                       IF k = cache_key THEN category ELSE c[k]],
       invoked  |-> ch]

\* mutant of CategorizeSingle: the category is returned without being stored
CategorizeSingle_NoStore(c, ch, description, value, outcome) ==
  LET cache_key == CreateCacheKey(description, value)
  IN  IF cache_key \in DOMAIN c
      THEN [category |-> c[cache_key], cache |-> c, invoked |-> FALSE]
      ELSE [category |-> IF ~ch
                         THEN RuleBasedCategorization(description, value)
                         ELSE LLMCategory(description, value, outcome),
            cache    |-> c,
            invoked  |-> ch]

\* categorize_single on cache c with classifier flag ch: the category
\* returned, the cache afterwards, and whether the classifier was invoked
CategorizeSingle(c, ch, description, value, outcome) ==
  LET cache_key == CreateCacheKey(description, value)
  IN  IF cache_key \in DOMAIN c
      THEN [category |-> c[cache_key], cache |-> c, invoked |-> FALSE]
      ELSE LET category ==
                 IF ~ch
                 THEN RuleBasedCategorization(description, value)
                 ELSE LLMCategory(description, value, outcome)
           IN  [category |-> category,
                cache    |-> [k \in DOMAIN c \cup {cache_key} |->
                                IF k = cache_key THEN category ELSE c[k]],
                invoked  |-> ch]

\* _setup_llm: whether self.chain ends up set.  client_ok = FALSE stands for
\* the client constructor raising inside the try block.
SetupLLM(provider, openai_available, groq_available, api_key, client_ok) ==
  IF provider = "openai" /\ openai_available
  THEN api_key /\ client_ok
  ELSE IF provider = "groq" /\ groq_available
  THEN api_key /\ client_ok
  ELSE FALSE

\* __init__ raises NameError at PromptTemplate.from_template (outside the
\* try block) when the first import block failed: PromptTemplate and
\* StrOutputParser are bound only by that block.
InitRaises(openai_available) == ~openai_available

EmptyCache == [k \in {} |-> None]
NoFile == [exists |-> FALSE, data |-> EmptyCache]

\* _load_cache: the file's dict, or {} when there is no file
LoadCache(file) == IF file.exists THEN file.data ELSE EmptyCache

\* the key under which the idempotence claim groups calls:
\* (lower-cased trimmed description, rounded absolute amount)
Bucket(value) == RoundHalfEven(Abs(value))
NormKey(description, value) == <<Flatten(Strip(Lower(description))), Bucket(value)>>

Providers == {"openai", "groq", "local"}

\* ---- inputs of the categorizer ----
\* (description, amount in cents) pairs given to categorize_single:
\* "Uber " and "uber" normalize alike, 10.00 and 10.50 round to the same
\* unit (a tie goes to the even unit), 11.51 rounds to 12
Calls ==
  { <<<<"U","b","e","r"," ">>, -1000>>,
    <<<<"u","b","e","r">>,      1050>>,
    <<<<"x","y","z">>,          1151>> }

LLMOutcomes ==
  { Raises,
    Returns(<<"L","a","z","e","r">>),
    Returns(<<" ","L","a","z","e","r","\n">>),
    Returns(<<"C","o","m","i","d","a">>) }

NaNCat == "<NaN>"   \* a missing Categoria cell (None / NaN)

\* rows of the DataFrames given to categorize_dataframe; valor_ok = FALSE
\* is a Valor cell float() rejects, 'Viagem' a category the categorizer
\* does not list
DfRows ==
  { [Descricao |-> <<"u","b","e","r">>, Valor |-> 1050, valor_ok |-> TRUE,  Categoria |-> NaNCat],
    [Descricao |-> <<"x","y","z">>,     Valor |-> 1151, valor_ok |-> TRUE,  Categoria |-> "Outros"],
    [Descricao |-> <<"x","y","z">>,     Valor |-> 0,    valor_ok |-> FALSE, Categoria |-> ""],
    [Descricao |-> <<"u","b","e","r">>, Valor |-> 1050, valor_ok |-> TRUE,  Categoria |-> "Moradia"],
    [Descricao |-> <<"x","y","z">>,     Valor |-> 1151, valor_ok |-> TRUE,  Categoria |-> "Viagem"] }

MaxBatch == 2
Batches == UNION { [1..n -> DfRows] : n \in 0..MaxBatch }

\* mutant of Uncategorized: every row is categorized again
Uncategorized_All(row) == row.Categoria = row.Categoria

Uncategorized(row) ==
  row.Categoria = NaNCat \/ row.Categoria = "" \/ row.Categoria = "Outros"

\* mutant of CategorizeRows: the first row that fails ends the loop
RECURSIVE CategorizeRows_Abort(_, _, _, _, _, _)
CategorizeRows_Abort(rows, i, c, ch, outcomes, log) ==
  IF i > Len(rows)
  THEN [rows |-> rows, cache |-> c, log |-> log]
  ELSE IF ~Uncategorized(rows[i])
  THEN CategorizeRows_Abort(rows, i + 1, c, ch, outcomes, log)
  ELSE IF ~rows[i].valor_ok
  THEN [rows |-> rows, cache |-> c, log |-> log]
  ELSE LET r == CategorizeSingle(c, ch, rows[i].Descricao, rows[i].Valor, outcomes[i])
       IN  CategorizeRows_Abort([rows EXCEPT ![i].Categoria = r.category],
                                i + 1, r.cache, ch, outcomes,
                                Append(log, [description |-> rows[i].Descricao,
                                             value       |-> rows[i].Valor,
                                             invoked     |-> r.invoked,
                                             category    |-> r.category]))

\* the for-loop of categorize_dataframe from row i on: the rows and cache
\* afterwards and the categorize_single calls made, in order
RECURSIVE CategorizeRows(_, _, _, _, _, _)
CategorizeRows(rows, i, c, ch, outcomes, log) ==
  IF i > Len(rows)
  THEN [rows |-> rows, cache |-> c, log |-> log]
  ELSE IF ~Uncategorized(rows[i])
  THEN CategorizeRows(rows, i + 1, c, ch, outcomes, log)
  ELSE IF ~rows[i].valor_ok
  THEN \* float(...) raises: the except branch writes 'Outros'
       CategorizeRows([rows EXCEPT ![i].Categoria = "Outros"],
                      i + 1, c, ch, outcomes, log)
  ELSE LET r == CategorizeSingle(c, ch, rows[i].Descricao, rows[i].Valor, outcomes[i])
       IN  CategorizeRows([rows EXCEPT ![i].Categoria = r.category],
                          i + 1, r.cache, ch, outcomes,
                          Append(log, [description |-> rows[i].Descricao,
                                       value       |-> rows[i].Valor,
                                       invoked     |-> r.invoked,
                                       category    |-> r.category]))

\* categorize_dataframe: the DataFrame returned, the cache afterwards,
\* whether _save_cache was reached, and the calls made
CategorizeDataframe(rows, c, ch, outcomes) ==
  IF rows = <<>> \/ \A i \in 1..Len(rows) : ~Uncategorized(rows[i])
  THEN [rows |-> rows, cache |-> c, log |-> <<>>, saved |-> FALSE]
  ELSE LET r == CategorizeRows(rows, 1, c, ch, outcomes, <<>>)
       IN  [rows |-> r.rows, cache |-> r.cache, log |-> r.log, saved |-> TRUE]

\* the history after the calls of log: a key keeps its first answer
RECURSIVE RecordCalls(_, _)
RecordCalls(h, log) ==
  IF log = <<>> THEN h
  ELSE LET call == Head(log)
           k    == NormKey(call.description, call.value)
           h1   == [x \in DOMAIN h \cup {k} |->
                      IF x \in DOMAIN h THEN h[x] ELSE call.category]
       IN  RecordCalls(h1, Tail(log))

NoHistory == [k \in {} |-> None]
NoReturn == [op |-> "none"]

\* FinancialCategorizer.__init__ in an environment: provider, the two import
\* flags, whether the API key is set, whether the client can be built
Construct(provider, openai_available, groq_available, api_key, client_ok) ==
  /\ ret' = [op |-> "__init__", raised |-> InitRaises(openai_available)]
  /\ IF InitRaises(openai_available)
     THEN /\ alive' = FALSE
          /\ chain' = FALSE
          /\ cache' = EmptyCache
     ELSE /\ alive' = TRUE
          /\ chain' = SetupLLM(provider, openai_available, groq_available,
                               api_key, client_ok)
          /\ cache' = LoadCache(cache_file)
  /\ first_answer' = NoHistory
  /\ UNCHANGED cache_file

NewCategorizer ==
  /\ \E provider \in Providers, oa \in BOOLEAN, ga \in BOOLEAN,
        key \in BOOLEAN, ok \in BOOLEAN :
       Construct(provider, oa, ga, key, ok)
  /\ UNCHANGED anVars

CategorizeSingleCall ==
  /\ alive
  /\ \E input \in Calls, outcome \in LLMOutcomes :
       LET description == input[1]
           value == input[2]
           r == CategorizeSingle(cache, chain, description, value, outcome)
           call == [description |-> description, value |-> value,
                    invoked |-> r.invoked, category |-> r.category]
           h == RecordCalls(first_answer, <<call>>)
       IN  /\ cache' = r.cache
           /\ ret' = [op |-> "categorize_single", description |-> description,
                      value |-> value, invoked |-> r.invoked,
                      outcome |-> IF r.invoked THEN outcome ELSE Raises,
                      category |-> r.category]
           /\ first_answer' = h
  /\ UNCHANGED <<alive, chain, cache_file, anVars>>

CategorizeDataframeCall ==
  /\ alive
  /\ \E rows \in Batches :
       \E outcomes \in IF chain THEN [1..Len(rows) -> LLMOutcomes]
                                  ELSE {[i \in 1..Len(rows) |-> Raises]} :
         LET r == CategorizeDataframe(rows, cache, chain, outcomes)
             h == RecordCalls(first_answer, r.log)
         IN  /\ cache' = r.cache
             /\ cache_file' = IF r.saved
                              THEN [exists |-> TRUE, data |-> r.cache]
                              ELSE cache_file
             /\ ret' = [op |-> "categorize_dataframe", given |-> rows,
                        rows |-> r.rows]
             /\ first_answer' = h
  /\ UNCHANGED <<alive, chain, anVars>>

AnIdle ==
  /\ raw = <<>>
  /\ pc = "idle"
  /\ df = <<>>
  /\ out = [op |-> "none"]

CatInit ==
  /\ cache_file = NoFile
  /\ alive \in BOOLEAN
  /\ chain \in BOOLEAN
  /\ alive = FALSE => chain = FALSE
  /\ cache = EmptyCache
  /\ ret = NoReturn
  /\ first_answer = NoHistory

CatNext == NewCategorizer \/ CategorizeSingleCall \/ CategorizeDataframeCall

InitCat == CatInit /\ AnIdle

SpecCat == InitCat /\ [][CatNext]_vars

(***************************************************************************)
(* Exact arithmetic for the analyzer.  A float the code computes by a      *)
(* division is kept as a fraction [num, den] in lowest terms with den > 0; *)
(* den = 0 stands for the IEEE values a division by zero yields:           *)
(* num = -1 is -inf, num = 1 is +inf, num = 0 is NaN.                      *)
(***************************************************************************)
RECURSIVE GCD(_, _)
GCD(a, b) == IF b = 0 THEN a ELSE GCD(b, a % b)

Sign(x) == IF x > 0 THEN 1 ELSE IF x < 0 THEN -1 ELSE 0

\* the float num / den
Frac(num, den) ==
  IF den = 0 THEN [num |-> Sign(num), den |-> 0]
  ELSE LET g == GCD(Abs(num), Abs(den))
       IN  [num |-> Sign(den) * (num \div g), den |-> Abs(den) \div g]

IsNaN(a) == a.den = 0 /\ a.num = 0

\* a + b on floats
FracAdd(a, b) ==
  IF IsNaN(a) \/ IsNaN(b) THEN Frac(0, 0)
  ELSE IF a.den = 0 /\ b.den = 0
  THEN (IF a.num = b.num THEN a ELSE Frac(0, 0))
  ELSE IF a.den = 0 THEN a
  ELSE IF b.den = 0 THEN b
  ELSE Frac(a.num * b.den + b.num * a.den, a.den * b.den)

\* a >= k and a < k for a float a and an integer k (False on NaN)
FracGeq(a, k) ==
  IF a.den = 0 THEN a.num = 1 ELSE a.num >= k * a.den

FracLt(a, k) ==
  IF a.den = 0 THEN a.num = -1 ELSE a.num < k * a.den

FracGt(a, k) ==
  IF a.den = 0 THEN a.num = 1 ELSE a.num > k * a.den

Range(s) == {s[i] : i \in DOMAIN s}

RECURSIVE SumSeq(_)
SumSeq(s) == IF s = <<>> THEN 0 ELSE Head(s) + SumSeq(Tail(s))

RECURSIVE SelectRows(_, _)
SelectRows(rows, S) ==
  IF rows = <<>> THEN <<>>
  ELSE IF Head(rows) \in S THEN <<Head(rows)>> \o SelectRows(Tail(rows), S)
  ELSE SelectRows(Tail(rows), S)

\* the elements of a finite set of integers in ascending order
RECURSIVE SortedSeq(_)
SortedSeq(S) ==
  IF S = {} THEN <<>> ELSE <<Min(S)>> \o SortedSeq(S \ {Min(S)})

\* a sequence of integers sorted ascending (np.sort, Series.quantile)
RECURSIVE Insert(_, _)
Insert(x, s) ==
  IF s = <<>> THEN <<x>>
  ELSE IF x <= Head(s) THEN <<x>> \o s
  ELSE <<Head(s)>> \o Insert(x, Tail(s))

RECURSIVE Sort(_)
Sort(s) == IF s = <<>> THEN <<>> ELSE Insert(Head(s), Sort(Tail(s)))

(***************************************************************************)
(* FinancialAnalyzer: construction                                         *)
(***************************************************************************)
NubankColumns == {"date", "title", "amount"}

\* _detect_nubank_format
DetectNubankFormat(columns) == NubankColumns \subseteq columns

\* One row of self.df after _prepare_data.  Mes is the month (Mes_Str, the
\* months numbered in calendar order); data_ok / valor_ok are FALSE for
\* NaT / NaN cells.
PreparedRow(r, columns, nubank) ==
  [ Mes            |-> r.month,
    data_ok        |-> r.date_ok,
    Valor          |-> r.amount,
    valor_ok       |-> r.amount_ok,
    Tipo           |-> IF r.amount_ok /\ r.amount > 0 THEN "Receita" ELSE "Despesa",
    Valor_Absoluto |-> Abs(r.amount),
    Descricao      |-> IF nubank \/ "Descrição" \in columns
                       THEN r.title ELSE "Sem descrição",
    Categoria      |-> IF "Categoria" \in columns THEN r.categoria ELSE "Outros",
    ID             |-> r.id ]

\* dropna(subset=['Data', 'Valor'])
DropNa(rows) == SelectRows(rows, {x \in Range(rows) : x.data_ok /\ x.valor_ok})

\* _prepare_data: the rows of self.df (to_datetime / to_numeric with
\* errors='coerce', Tipo, Valor_Absoluto, then dropna on Data and Valor)
PrepareData(input) ==
  DropNa([i \in 1..Len(input.rows) |->
            PreparedRow(input.rows[i], input.columns,
                        DetectNubankFormat(input.columns))])

\* mutant of PrepareRaises: raise only when both columns are missing
PrepareRaises_BothMissing(input) ==
  /\ input.rows # <<>>
  /\ ~DetectNubankFormat(input.columns)
  /\ "Data" \notin input.columns
  /\ "Valor" \notin input.columns

\* _prepare_data raises ValueError when a required column is missing
PrepareRaises(input) ==
  /\ input.rows # <<>>
  /\ ~DetectNubankFormat(input.columns)
  /\ ~({"Data", "Valor"} \subseteq input.columns)

\* ---- inputs of the analyzer ----
\* A raw row: date_ok / amount_ok are FALSE for a cell that is text no date
\* / number can be parsed from; month numbers the calendar months in order.
Row(month, amount, title, categoria, id) ==
  [ month |-> month, date_ok |-> TRUE, amount |-> amount, amount_ok |-> TRUE,
    title |-> title, categoria |-> categoria, id |-> id ]

GenericRows ==
  { Row(1, -2, "uber",    "Transporte", 1),
    Row(2, -1, "uber",    "Transporte", 2),
    Row(1, -3, "aluguel", "Moradia",    1),
    Row(1,  4, "salario", "Receitas",   3),
    Row(2,  1, "salario", "Receitas",   4),
    Row(2,  0, "aluguel", "Moradia",    5),
    [Row(0, -1, "uber", "Transporte", 2) EXCEPT !.date_ok = FALSE],
    [Row(1,  0, "uber", "Transporte", 3) EXCEPT !.amount_ok = FALSE] }

TraditionalColumns == {"Data", "Valor", "Descrição", "Categoria", "ID"}

Frame(columns, rows) == [columns |-> columns, rows |-> rows]

MaxRows == 3
GenericInputs ==
  { Frame(c, rows) : c \in {NubankColumns, TraditionalColumns},
                     rows \in UNION { [1..n -> GenericRows] : n \in 0..MaxRows } }

\* frames lacking the optional or the required columns
SchemaInputs ==
  { Frame(c, rows) : c \in {{"Data", "Valor"}, {"Valor"}, {"Data"}, {"Descrição"},
                           {"Date", "Amount"}},
                     rows \in {<<>>} \cup {<<r>> : r \in GenericRows} }

\* one expense a month for n months, with an optional fixed monthly income
MaxMonths == 5
SeriesAmounts == {1, 2, 3}
SeriesIncomes == {0, 2}

RECURSIVE SeriesRows(_, _, _)
SeriesRows(amounts, income, m) ==
  IF m > Len(amounts) THEN <<>>
  ELSE (IF income > 0 THEN <<Row(m, income, "salario", "Receitas", 2 * m)>>
        ELSE <<>>)
       \o <<Row(m, -amounts[m], "uber", "Transporte", 2 * m + 1)>>
       \o SeriesRows(amounts, income, m + 1)

SeriesInputs ==
  { Frame(NubankColumns, SeriesRows(a, i, 1)) :
      a \in UNION { [1..n -> SeriesAmounts] : n \in 3..MaxMonths },
      i \in SeriesIncomes }

\* the worked examples of the specification
DeficitScenario ==
  Frame(TraditionalColumns,
        << Row(1, 1000, "salario", "Receitas", 1), Row(1, -900,  "aluguel", "Moradia", 2),
           Row(2, 1000, "salario", "Receitas", 3), Row(2, -1100, "aluguel", "Moradia", 4),
           Row(3, 1000, "salario", "Receitas", 5), Row(3, -1000, "aluguel", "Moradia", 6) >>)

ConcentrationScenario ==
  Frame(TraditionalColumns,
        << Row(1, -100, "restaurante", "Alimentação", 1),
           Row(1, -50,  "mercado",     "Mercado",     2),
           Row(1, -350, "aluguel",     "Moradia",     3) >>)

PredictionScenario ==
  Frame(TraditionalColumns,
        << Row(1, -200, "aluguel", "Moradia", 1), Row(2, -220, "aluguel", "Moradia", 2),
           Row(3, -210, "aluguel", "Moradia", 3), Row(4, -230, "aluguel", "Moradia", 4) >>)

\* a category at exactly 30% of the expenses
ConcentrationBoundary ==
  Frame(TraditionalColumns,
        << Row(1, -30, "restaurante", "Alimentação", 1),
           Row(1, -70, "aluguel",     "Moradia",     2) >>)

\* one establishment over three months, its total doubling in the last one,
\* in 21 expense rows (check 5 of detect_anomalies asks for more than 20)
GrowthScenario ==
  Frame(NubankColumns,
        [k \in 1..21 |->
           Row(IF k <= 7 THEN 1 ELSE IF k <= 14 THEN 2 ELSE 3,
               IF k <= 14 THEN -1 ELSE -2, "uber", "Transporte", k)])

ScenarioInputs ==
  {DeficitScenario, ConcentrationScenario, ConcentrationBoundary, PredictionScenario,
   GrowthScenario}

AnInputs == GenericInputs \cup SchemaInputs \cup SeriesInputs \cup ScenarioInputs

(***************************************************************************)
(* FinancialAnalyzer(df): __init__ runs _prepare_data.  On an empty        *)
(* DataFrame _prepare_data returns before self.receitas / self.despesas    *)
(* exist (pc = "empty").                                                   *)
(***************************************************************************)
NewAnalyzer ==
  /\ pc = "loaded"
  /\ IF raw.rows = <<>>
     THEN /\ pc' = "empty"
          /\ df' = <<>>
          /\ out' = [op |-> "__init__", raised |-> FALSE]
     ELSE IF PrepareRaises(raw)
     THEN /\ pc' = "failed"
          /\ df' = <<>>
          /\ out' = [op |-> "__init__", raised |-> TRUE]
     ELSE /\ pc' = "prepared"
          /\ df' = PrepareData(raw)
          /\ out' = [op |-> "__init__", raised |-> FALSE]
  /\ UNCHANGED <<raw, catVars>>

(***************************************************************************)
(* FinancialAnalyzer: grouping helpers                                     *)
(***************************************************************************)
\* self.receitas / self.despesas
Receitas(d) == SelectRows(d, {r \in Range(d) : r.Tipo = "Receita"})
Despesas(d) == SelectRows(d, {r \in Range(d) : r.Tipo = "Despesa"})

\* rows['Valor_Absoluto']
Amounts(rows) == [i \in 1..Len(rows) |-> rows[i].Valor_Absoluto]

\* rows['Valor_Absoluto'].sum()
SumAbs(rows) == SumSeq(Amounts(rows))

\* rows[rows[col] == key]
Where(rows, col, key) == SelectRows(rows, {r \in Range(rows) : r[col] = key})

\* the index of rows.groupby('Mes_Str'): the months present, ascending
MonthIndex(rows) == SortedSeq({r.Mes : r \in Range(rows)})

\* the totals of rows over the months ms (unstack(fill_value=0))
TotalsOver(rows, ms) == [i \in 1..Len(ms) |-> SumAbs(Where(rows, "Mes", ms[i]))]

\* rows.groupby('Mes_Str')['Valor_Absoluto'].sum(), as the sequence of totals
MonthlyTotals(rows) == TotalsOver(rows, MonthIndex(rows))

\* rows.groupby(col)['Valor_Absoluto'].sum(), as a function of the key
TotalsBy(rows, col) ==
  [k \in {r[col] : r \in Range(rows)} |-> SumAbs(Where(rows, col, k))]

\* groupby sorts its string keys by code point; the names the inputs use
NameOrder ==
  << "Alimentação", "Mercado", "Moradia", "Outros", "Receitas", "Sem descrição",
     "Transporte", "aluguel", "mercado", "restaurante", "salario", "uber" >>

SortNames(S) == SelectSeq(NameOrder, LAMBDA n : n \in S)

Indexes(s) == [i \in 1..Len(s) |-> i]

\* sum of squares and of index-weighted values (x = 0 .. n-1)
SumSq(s) == SumSeq([i \in 1..Len(s) |-> s[i] * s[i]])
SumXY(s) == SumSeq([i \in 1..Len(s) |-> (i - 1) * s[i]])
SumX(n)  == SumSeq([i \in 1..n |-> i - 1])
SumXX(n) == SumSeq([i \in 1..n |-> (i - 1) * (i - 1)])

\* n * sum of squared deviations: n * (n-1) * series.std()**2
NVar(s) == Len(s) * SumSq(s) - SumSeq(s) * SumSeq(s)

\* np.polyfit(x, series, 1)[0]
Slope(s) ==
  Frac(Len(s) * SumXY(s) - SumX(Len(s)) * SumSeq(s),
       Len(s) * SumXX(Len(s)) - SumX(Len(s)) * SumX(Len(s)))

\* _calculate_trend
CalculateTrend(series) ==
  IF Len(series) < 2
  THEN [direction |-> "stable", change |-> Frac(0, 1)]
  ELSE [direction |-> IF Slope(series).num > 0 THEN "increasing"
                      ELSE IF Slope(series).num < 0 THEN "decreasing"
                      ELSE "stable",
        change    |-> IF series[1] # 0
                      THEN Frac((series[Len(series)] - series[1]) * 100, Abs(series[1]))
                      ELSE Frac(0, 1),
        slope     |-> Slope(series)]

(***************************************************************************)
(* FinancialAnalyzer.detect_anomalies                                      *)
(***************************************************************************)
\* self.alert_thresholds and the literals of the growth check
ExpenseSpike == [num |-> 3, den |-> 2]
LowSavingsRate == 10
CategoryLimit == [num |-> 3, den |-> 10]
GrowthMinRows == 20
GrowthMinChange == 50

NoDate == 0
NoCategory == "<None>"

Alert(type, severity, value, category, date) ==
  [type |-> type, severity |-> severity, value |-> value,
   category |-> category, date |-> date]

\* mutant of SpikeTest: a month at the threshold counts as a spike
SpikeTest_Inclusive(n, d, nvar) ==
  /\ d >= 0
  /\ ExpenseSpike.den * ExpenseSpike.den * (n - 1) * d * d
       >= ExpenseSpike.num * ExpenseSpike.num * n * nvar

\* expense > mean_expense + expense_spike * std_expense, the standard
\* deviation being the sample one (ddof = 1): with d = n * (expense - mean),
\* d > 0 and den^2 * (n-1) * d^2 > num^2 * n * NVar
SpikeTest(n, d, nvar) ==
  /\ d > 0
  /\ ExpenseSpike.den * ExpenseSpike.den * (n - 1) * d * d
       > ExpenseSpike.num * ExpenseSpike.num * n * nvar

IsSpike(series, expense) ==
  SpikeTest(Len(series), Len(series) * expense - SumSeq(series), NVar(series))

\* check 1 over the monthly totals of the months ms
SpikeAlerts(ms, monthly_expenses) ==
  LET hit == SelectSeq(Indexes(ms),
                       LAMBDA i : IsSpike(monthly_expenses, monthly_expenses[i]))
  IN  IF Len(monthly_expenses) >= 3
      THEN [k \in 1..Len(hit) |->
              Alert("expense_spike", "high", Frac(monthly_expenses[hit[k]], 1),
                    NoCategory, ms[hit[k]])]
      ELSE <<>>

\* 20 * values.quantile(0.95), values non-empty: linear interpolation in
\* the sorted values at position h / 20 = 0.95 * (n - 1)
Quantile95x20(values) ==
  LET s  == Sort(values)
      h  == 19 * (Len(values) - 1)
      lo == (h \div 20) + 1
  IN  20 * s[lo] + (IF h % 20 > 0 THEN (h % 20) * (s[lo + 1] - s[lo]) ELSE 0)

\* despesas[despesas['Valor_Absoluto'] > quantile(0.95)]
LargeTransactions(despesas) ==
  SelectRows(despesas,
             {r \in Range(despesas) :
                20 * r.Valor_Absoluto > Quantile95x20(Amounts(despesas))})

\* check 2
LargeAlerts(large) ==
  [i \in 1..Len(large) |->
     Alert("large_transaction", "medium", Frac(large[i].Valor_Absoluto, 1),
           large[i].Categoria, large[i].Mes)]

\* mutant of OverLimit: a share of exactly the limit counts as over it
OverLimit_Inclusive(valor, total) ==
  total # 0 /\ CategoryLimit.den * valor >= CategoryLimit.num * total

\* valor / total_despesas > category_limit (NaN, from 0 / 0, compares False)
OverLimit(valor, total) ==
  total # 0 /\ CategoryLimit.den * valor > CategoryLimit.num * total

\* check 3 over category_spending
CategoryAlerts(spending, total_despesas) ==
  LET over == SelectSeq(SortNames(DOMAIN spending),
                        LAMBDA c : OverLimit(spending[c], total_despesas))
  IN  [i \in 1..Len(over) |->
         Alert("category_overspending", "medium", Frac(spending[over[i]], 1),
               over[i], NoDate)]

\* (Receita - Despesa) / Receita * 100 of one month
SavingsRate(receita, despesa) == Frac((receita - despesa) * 100, receita)

\* monthly_data['Taxa_Poupanca'] over the months ms of self.df
MonthlyRates(receitas, despesas, ms) ==
  [i \in 1..Len(ms) |->
     SavingsRate(SumAbs(Where(receitas, "Mes", ms[i])),
                 SumAbs(Where(despesas, "Mes", ms[i])))]

\* mutant of SavingsAlerts: a rate of exactly the floor counts as low
SavingsAlerts_Inclusive(ms, rates) ==
  LET low == SelectSeq(Indexes(ms),
                       LAMBDA i : ~FracGt(rates[i], LowSavingsRate) /\ ~IsNaN(rates[i]))
  IN  [k \in 1..Len(low) |->
         Alert("low_savings",
               IF FracLt(rates[low[k]], 0) THEN "critical" ELSE "medium",
               rates[low[k]], NoCategory, ms[low[k]])]

\* check 4 over monthly_data['Taxa_Poupanca']
SavingsAlerts(ms, rates) ==
  LET low == SelectSeq(Indexes(ms), LAMBDA i : FracLt(rates[i], LowSavingsRate))
  IN  [k \in 1..Len(low) |->
         Alert("low_savings",
               IF FracLt(rates[low[k]], 0) THEN "critical" ELSE "medium",
               rates[low[k]], NoCategory, ms[low[k]])]

\* establishment_monthly: per establishment, the number of its non-zero
\* months among ms and the trend of their totals
EstablishmentTrends(despesas, ms) ==
  [e \in {r.Descricao : r \in Range(despesas)} |->
     LET non_zero_months ==
           SelectSeq(TotalsOver(Where(despesas, "Descricao", e), ms),
                     LAMBDA v : v > 0)
     IN  [months |-> Len(non_zero_months),
          trend  |-> CalculateTrend(non_zero_months)]]

\* check 5
GrowthAlerts(trends) ==
  LET grown == SelectSeq(SortNames(DOMAIN trends), LAMBDA e :
                 /\ trends[e].months >= 3
                 /\ trends[e].trend.direction = "increasing"
                 /\ FracGt(trends[e].trend.change, GrowthMinChange))
  IN  [i \in 1..Len(grown) |->
         Alert("establishment_growth", "low", trends[grown[i]].trend.change,
               "Estabelecimento", NoDate)]

\* detect_anomalies: the alerts of the five checks, in the order the code
\* appends them
DetectAnomalies(d, nubank) ==
  IF Despesas(d) = <<>> THEN <<>>
  ELSE SpikeAlerts(MonthIndex(Despesas(d)), MonthlyTotals(Despesas(d)))
         \o (IF nubank THEN LargeAlerts(LargeTransactions(Despesas(d))) ELSE <<>>)
         \o CategoryAlerts(TotalsBy(Despesas(d), "Categoria"), SumAbs(Despesas(d)))
         \o (IF Receitas(d) # <<>>
             THEN SavingsAlerts(MonthIndex(d),
                                MonthlyRates(Receitas(d), Despesas(d), MonthIndex(d)))
             ELSE <<>>)
         \o (IF nubank /\ Len(Despesas(d)) > GrowthMinRows
             THEN GrowthAlerts(EstablishmentTrends(Despesas(d), MonthIndex(Despesas(d))))
             ELSE <<>>)

(***************************************************************************)
(* FinancialAnalyzer.generate_monthly_insights / generate_predictions      *)
(* A dict is a function from the keys it holds.                            *)
(***************************************************************************)
NoKeys == [k \in {} |-> None]

\* series.mean() of integers (NaN when empty)
Mean(s) == Frac(SumSeq(s), Len(s))

RECURSIVE FracSum(_)
FracSum(fs) ==
  IF fs = <<>> THEN Frac(0, 1) ELSE FracAdd(Head(fs), FracSum(Tail(fs)))

\* series.mean() of floats: NaN entries are skipped
MeanFrac(fs) ==
  LET ok == SelectSeq(fs, LAMBDA f : ~IsNaN(f))
      t  == FracSum(ok)
  IN  IF ok = <<>> THEN Frac(0, 0)
      ELSE IF t.den # 0 THEN Frac(t.num, t.den * Len(ok))
      ELSE t

\* monthly_data['Saldo']
Saldo(receita, despesa) == [i \in 1..Len(receita) |-> receita[i] - despesa[i]]

\* (Saldo / Receita * 100).fillna(0)
TaxaPoupanca(receita, despesa) ==
  [i \in 1..Len(receita) |->
     IF receita[i] = 0 /\ despesa[i] = 0 THEN Frac(0, 1)
     ELSE Frac((receita[i] - despesa[i]) * 100, receita[i])]

\* the branch with both a Receita and a Despesa column
InsightsBoth(receita, despesa) ==
  ("media_receitas" :> Mean(receita))
    @@ ("media_despesas" :> Mean(despesa))
    @@ ("media_saldo" :> Mean(Saldo(receita, despesa)))
    @@ ("taxa_poupanca_media" :> MeanFrac(TaxaPoupanca(receita, despesa)))
    @@ (IF Len(despesa) >= 2
        THEN ("tendencia_receitas" :> CalculateTrend(receita))
               @@ ("tendencia_despesas" :> CalculateTrend(despesa))
               @@ ("tendencia_saldo" :> CalculateTrend(Saldo(receita, despesa)))
        ELSE NoKeys)

\* the branch with a Despesa column only
InsightsExpenses(despesa) ==
  ("media_despesas" :> Mean(despesa))
    @@ (IF Len(despesa) >= 2
        THEN "tendencia_despesas" :> CalculateTrend(despesa)
        ELSE NoKeys)

\* generate_monthly_insights (keys kept: the means and the trends)
GenerateMonthlyInsights(d) ==
  IF d = <<>> \/ Despesas(d) = <<>> THEN NoKeys
  ELSE IF Receitas(d) # <<>>
  THEN InsightsBoth(TotalsOver(Receitas(d), MonthIndex(d)),
                    TotalsOver(Despesas(d), MonthIndex(d)))
  ELSE InsightsExpenses(MonthlyTotals(Despesas(d)))

\* mutant of RollingMean3: the mean of all the months
RollingMean3_AllMonths(series) == Frac(SumSeq(series), Len(series))

\* series.rolling(3).mean().iloc[-1], Len(series) >= 3
RollingMean3(series) ==
  Frac(series[Len(series) - 2] + series[Len(series) - 1] + series[Len(series)], 3)

\* slope * len(series) + intercept of np.polyfit(x, series, 1): with
\* slope = a / b, intercept = (sum(y) - slope * sum(x)) / n
LinearForecast(series) ==
  LET n == Len(series)
      a == n * SumXY(series) - SumX(n) * SumSeq(series)
      b == n * SumXX(n) - SumX(n) * SumX(n)
  IN  Frac(a * (n * n - SumX(n)) + b * SumSeq(series), b * n)

\* the totals of the months that are the calendar month of the last one
SameMonthPrevious(ms, series) ==
  LET idx == SelectSeq(Indexes(ms), LAMBDA i : (ms[Len(ms)] - ms[i]) % 12 = 0)
  IN  [k \in 1..Len(idx) |-> series[idx[k]]]

\* the keys set when there are at least 3 months of expenses
MonthlyForecast(monthly_expenses, same_month_previous) ==
  IF Len(monthly_expenses) >= 3
  THEN ("proximo_mes_media" :> RollingMean3(monthly_expenses))
         @@ ("proximo_mes_tendencia" :> LinearForecast(monthly_expenses))
         @@ (IF Len(same_month_previous) > 1
             THEN "proximo_mes_sazonal" :> Mean(same_month_previous)
             ELSE NoKeys)
  ELSE NoKeys

\* rows.groupby(col): the monthly totals of each key
MonthlyBy(rows, col) ==
  [k \in {r[col] : r \in Range(rows)} |-> MonthlyTotals(Where(rows, col, k))]

\* category_predictions
CategoryForecast(cat_monthly) ==
  [c \in {k \in DOMAIN cat_monthly : Len(cat_monthly[k]) >= 3} |->
     RollingMean3(cat_monthly[c])]

\* value_counts().head(5): the names fewer than 5 others outnumber
TopEstablishments(counts) ==
  {e \in DOMAIN counts :
     Cardinality({f \in DOMAIN counts : counts[f] > counts[e]}) < 5}

ValueCounts(rows, col) ==
  [k \in {r[col] : r \in Range(rows)} |-> Len(Where(rows, col, k))]

\* establishment_predictions
EstablishmentForecast(top, est_monthly) ==
  [e \in {k \in top : Len(est_monthly[k]) >= 2} |-> Mean(est_monthly[e])]

\* generate_predictions
GeneratePredictions(d, nubank) ==
  MonthlyForecast(MonthlyTotals(Despesas(d)),
                  SameMonthPrevious(MonthIndex(Despesas(d)), MonthlyTotals(Despesas(d))))
    @@ ("por_categoria" :> CategoryForecast(MonthlyBy(Despesas(d), "Categoria")))
    @@ (IF nubank
        THEN "estabelecimentos_frequentes" :>
               EstablishmentForecast(
                 TopEstablishments(ValueCounts(Despesas(d), "Descricao")),
                 MonthlyBy(Despesas(d), "Descricao"))
        ELSE NoKeys)

(***************************************************************************)
(* FinancialAnalyzer.calculate_financial_health_score                      *)
(***************************************************************************)
\* monthly_expenses.std() / monthly_expenses.mean() <= p / q (a NaN
\* coefficient, from a zero mean, compares False)
CvAtMost(series, p, q) ==
  /\ SumSeq(series) > 0
  /\ q * q * Len(series) * NVar(series)
       <= p * p * (Len(series) - 1) * SumSeq(series) * SumSeq(series)

Component(score, max_score) == [score |-> Frac(score, 1), max_score |-> max_score]

SavingsScore(savings_rate) ==
  IF FracGeq(savings_rate, 20) THEN 30
  ELSE IF FracGeq(savings_rate, 10) THEN 20
  ELSE IF FracGeq(savings_rate, 0) THEN 10
  ELSE 0

ControlScore(monthly_expenses) ==
  IF Len(monthly_expenses) >= 2
  THEN IF CvAtMost(monthly_expenses, 3, 20) THEN 30
       ELSE IF CvAtMost(monthly_expenses, 1, 4) THEN 20
       ELSE IF CvAtMost(monthly_expenses, 7, 20) THEN 15
       ELSE 10
  ELSE 15

\* 1. savings rate (with income) or spending control (expenses only)
SavingsComponent(d, receitas, despesas) ==
  IF receitas # <<>>
  THEN IF despesas # <<>>
       THEN "taxa_poupanca" :>
              Component(SavingsScore(MeanFrac(MonthlyRates(receitas, despesas,
                                                           MonthIndex(d)))), 30)
       ELSE NoKeys
  ELSE "controle_gastos" :> Component(ControlScore(MonthlyTotals(despesas)), 30)

\* the Gini index of the category totals:
\* sum((2i - n - 1) * x_i) / (n * sum(x)) over the ascending totals
Gini(category_distribution) ==
  LET names  == SortNames(DOMAIN category_distribution)
      totals == Sort([i \in 1..Len(names) |-> category_distribution[names[i]]])
      n      == Len(totals)
  IN  Frac(SumSeq([i \in 1..n |-> (2 * i - n - 1) * totals[i]]), n * SumSeq(totals))

\* mutant of DiversificationScore: 20 * gini, the score grows with the Gini
DiversificationScore_Direct(gini) ==
  IF gini.den > 0 THEN Frac(20 * gini.num, gini.den) ELSE Frac(0, 1)

\* max(0, 20 * (1 - gini)); max(0, NaN) is 0
DiversificationScore(gini) ==
  IF gini.den > gini.num
  THEN Frac(20 * (gini.den - gini.num), gini.den)
  ELSE Frac(0, 1)

\* 2. diversification
DiversificationComponent(despesas) ==
  "diversificacao" :>
    [score |-> DiversificationScore(Gini(TotalsBy(despesas, "Categoria"))),
     max_score |-> 20]

StabilityScore(monthly_expenses) ==
  IF CvAtMost(monthly_expenses, 1, 10) THEN 25
  ELSE IF CvAtMost(monthly_expenses, 1, 5) THEN 20
  ELSE IF CvAtMost(monthly_expenses, 3, 10) THEN 15
  ELSE 10

\* 3. stability of the monthly totals
StabilityComponent(monthly_expenses) ==
  IF Len(monthly_expenses) >= 3
  THEN "estabilidade" :> Component(StabilityScore(monthly_expenses), 25)
  ELSE NoKeys

\* large / all <= 0.02, 0.05, 0.10
LargeScore(large, all) ==
  IF 100 * large <= 2 * all THEN 25
  ELSE IF 100 * large <= 5 * all THEN 20
  ELSE IF 100 * large <= 10 * all THEN 15
  ELSE 10

\* 4. share of large transactions, despesas non-empty
LargeComponent(despesas) ==
  "controle_grandes_gastos" :>
    Component(LargeScore(Len(LargeTransactions(despesas)), Len(despesas)), 25)

\* components.get(key, {}).get('score', 0)
ScoreOf(components, key) ==
  IF key \in DOMAIN components THEN components[key].score ELSE Frac(0, 1)

\* total_score
TotalScore(components) ==
  FracSum(<< ScoreOf(components, IF "taxa_poupanca" \in DOMAIN components
                                 THEN "taxa_poupanca" ELSE "controle_gastos"),
             ScoreOf(components, "diversificacao"),
             ScoreOf(components, "estabilidade"),
             ScoreOf(components, "controle_grandes_gastos") >>)

\* _classify_financial_health
ClassifyFinancialHealth(score) ==
  IF FracGeq(score, 80) THEN "Excelente"
  ELSE IF FracGeq(score, 65) THEN "Boa"
  ELSE IF FracGeq(score, 50) THEN "Regular"
  ELSE IF FracGeq(score, 35) THEN "Ruim"
  ELSE "Crítica"

Raised(error) == [raised |-> TRUE, error |-> error]
Returned(value) == [raised |-> FALSE, value |-> value]

\* the dict returned for the components: total_score / max_score * 100
\* with max_score = 30 + 20 + 25 + 25
HealthOf(components, nubank) ==
  LET total_score == TotalScore(components)
      final_score == Frac(total_score.num * 100,
                          total_score.den * (30 + 20 + 25 + 25))
  IN  ("score" :> final_score)
        @@ ("components" :> components)
        @@ ("classification" :> ClassifyFinancialHealth(final_score))
        @@ ("data_type" :> IF nubank THEN "Nubank" ELSE "Tradicional")

\* calculate_financial_health_score: len(large_transactions) /
\* len(self.despesas) divides by zero when there is no expense row
CalculateFinancialHealthScore(d, nubank) ==
  IF d = <<>>
  THEN Returned(("score" :> Frac(0, 1)) @@ ("components" :> NoKeys))
  ELSE IF Despesas(d) = <<>>
  THEN Raised("ZeroDivisionError")
  ELSE Returned(HealthOf(SavingsComponent(d, Receitas(d), Despesas(d))
                           @@ DiversificationComponent(Despesas(d))
                           @@ StabilityComponent(MonthlyTotals(Despesas(d)))
                           @@ LargeComponent(Despesas(d)),
                         nubank))

(***************************************************************************)
(* FinancialAnalyzer.generate_comprehensive_report                         *)
(***************************************************************************)
Max(S) == CHOOSE x \in S : \A y \in S : y <= x

\* mutant of Summary: the expenses enter the balance with their sign
Summary_SignedExpenses(d) ==
  LET total_income == IF Receitas(d) # <<>> THEN SumAbs(Receitas(d)) ELSE 0
      total_expenses == IF Despesas(d) # <<>> THEN SumAbs(Despesas(d)) ELSE 0
  IN  [ total_transactions |-> Len(d),
        total_income       |-> total_income,
        total_expenses     |-> total_expenses,
        net_balance        |-> total_income + total_expenses ]

\* report['summary']
Summary(d) ==
  LET total_income == IF Receitas(d) # <<>> THEN SumAbs(Receitas(d)) ELSE 0
      total_expenses == IF Despesas(d) # <<>> THEN SumAbs(Despesas(d)) ELSE 0
  IN  [ total_transactions |-> Len(d),
        total_income       |-> total_income,
        total_expenses     |-> total_expenses,
        net_balance        |-> total_income - total_expenses ]

\* analyze_spending_patterns_nubank (key kept: the largest category total)
SpendingPatterns(despesas) ==
  IF despesas = <<>> THEN NoKeys
  ELSE "por_categoria" :>
         [valor_mais_gasta |-> Max(Range(TotalsBy(despesas, "Categoria")))]

\* report['nubank_stats'] (keys kept: the count and the largest amount)
NubankStats(despesas) ==
  [ unique_establishments |-> Cardinality({r.Descricao : r \in Range(despesas)}),
    largest_transaction |->
      IF despesas # <<>> THEN Max(Range(Amounts(despesas))) ELSE 0 ]

ReportOf(health, d, nubank) ==
  IF health.raised THEN health
  ELSE Returned(("data_type" :> IF nubank THEN "Nubank" ELSE "Tradicional")
                  @@ ("summary" :> Summary(d))
                  @@ ("insights" :> GenerateMonthlyInsights(d))
                  @@ ("alerts" :> DetectAnomalies(d, nubank))
                  @@ ("patterns" :> SpendingPatterns(Despesas(d)))
                  @@ ("predictions" :> GeneratePredictions(d, nubank))
                  @@ ("health_score" :> health.value)
                  @@ (IF nubank THEN "nubank_stats" :> NubankStats(Despesas(d))
                      ELSE NoKeys))

\* generate_comprehensive_report on a prepared analyzer: the health score is
\* the one call in it that can raise
GenerateComprehensiveReport(d, nubank) ==
  ReportOf(CalculateFinancialHealthScore(d, nubank), d, nubank)

(***************************************************************************)
(* DataProcessor.process_data                                              *)
(***************************************************************************)
\* mutant of DropDuplicates: keep='last'
RECURSIVE DropDuplicates_KeepLast(_, _)
DropDuplicates_KeepLast(rows, seen) ==
  IF rows = <<>> THEN <<>>
  ELSE IF \E i \in 2..Len(rows) : rows[i].ID = Head(rows).ID
  THEN DropDuplicates_KeepLast(Tail(rows), seen)
  ELSE <<Head(rows)>> \o DropDuplicates_KeepLast(Tail(rows), seen)

RECURSIVE DropDuplicates(_, _)
DropDuplicates(rows, seen) ==
  IF rows = <<>> THEN <<>>
  ELSE IF Head(rows).ID \in seen THEN DropDuplicates(Tail(rows), seen)
  ELSE <<Head(rows)>> \o DropDuplicates(Tail(rows), seen \cup {Head(rows).ID})

\* process_data: to_datetime without errors='coerce' raises on text that is
\* no date; to_numeric coerces to NaN; no row is dropped for a NaN
ProcessedRow(r) ==
  [ Mes            |-> r.month,
    data_ok        |-> r.date_ok,
    Valor          |-> r.amount,
    valor_ok       |-> r.amount_ok,
    Tipo           |-> IF r.amount_ok /\ r.amount > 0 THEN "Receita" ELSE "Despesa",
    Valor_Absoluto |-> Abs(r.amount),
    Descricao      |-> r.title,
    Categoria      |-> r.categoria,
    ID             |-> r.id ]

ProcessData(input) ==
      IF "Data" \notin input.columns THEN Raised("KeyError")
      ELSE IF \E i \in 1..Len(input.rows) : ~input.rows[i].date_ok
      THEN Raised("ValueError")
      ELSE IF "Valor" \notin input.columns \/ "ID" \notin input.columns
      THEN Raised("KeyError")
      ELSE Returned(DropDuplicates([i \in 1..Len(input.rows) |->
                                      ProcessedRow(input.rows[i])], {}))

\* the columns of the caller's DataFrame after process_data
AssignedColumns(input) ==
  IF "Data" \notin input.columns
       \/ \E i \in 1..Len(input.rows) : ~input.rows[i].date_ok
  THEN input.columns
  ELSE IF "Valor" \notin input.columns
  THEN input.columns \cup {"Mes", "Ano", "Mes_Nome"}
  ELSE input.columns \cup {"Mes", "Ano", "Mes_Nome", "Tipo", "Valor_Absoluto"}

(***************************************************************************)
(* dashboard.process_financial_data                                        *)
(***************************************************************************)
\* detect_column_mappings: the columns of the inputs whose lower-cased name
\* contains a pattern of each standard column
ColumnPatterns ==
  ("Data" :> {"Data", "Date", "date"})
    @@ ("Valor" :> {"Valor", "Amount", "amount"})
    @@ ("Descrição" :> {"Descrição", "title"})
    @@ ("Categoria" :> {"Categoria"})
    @@ ("ID" :> {"ID"})

DetectColumnMappings(columns) ==
  IF DetectNubankFormat(columns)
  THEN ("Data" :> "date") @@ ("Descrição" :> "title") @@ ("Valor" :> "amount")
  ELSE [standard_name \in {c \in DOMAIN ColumnPatterns :
                             ColumnPatterns[c] \cap columns # {}}
          |-> CHOOSE actual_name \in ColumnPatterns[standard_name] \cap columns : TRUE]

\* the columns of df_processed once the mapping is applied
MappedColumns(columns) == columns \cup DOMAIN DetectColumnMappings(columns)

\* identify_fixed_costs: the descriptions of the inputs that contain a
\* fixed-cost pattern, with the category of the pattern
fixed_patterns == "aluguel" :> "Moradia"

\* descriptions of expenses that appear in at least 2 months
RecurringDescriptions(rows) ==
  {x.Descricao : x \in {y \in Range(rows) :
      /\ y.Tipo = "Despesa"
      /\ \E z \in Range(rows) :
           z.Tipo = "Despesa" /\ z.Descricao = y.Descricao /\ z.Mes # y.Mes}}

IdentifyFixedCosts(rows) ==
  [i \in 1..Len(rows) |->
     [rows[i] EXCEPT
        !.Custo_Tipo =
           IF \/ rows[i].Descricao \in DOMAIN fixed_patterns
              \/ /\ rows[i].Tipo = "Despesa"
                 /\ rows[i].Descricao \in RecurringDescriptions(rows)
           THEN "Fixo" ELSE "Variável",
        !.Categoria =
           IF rows[i].Descricao \in DOMAIN fixed_patterns /\ @ = "Outros"
           THEN fixed_patterns[rows[i].Descricao] ELSE @]]

\* improve_nubank_categorization: the category of the last pattern that the
\* descriptions of the inputs contain
nubank_patterns ==
  ("restaurante" :> "Alimentação") @@ ("mercado" :> "Mercado")
    @@ ("uber" :> "Transporte") @@ ("aluguel" :> "Moradia")
    @@ ("salario" :> "Receitas")

ImproveNubankCategorization(rows) ==
  [i \in 1..Len(rows) |->
     [rows[i] EXCEPT !.Categoria = IF rows[i].Descricao \in DOMAIN nubank_patterns
                                   THEN nubank_patterns[rows[i].Descricao] ELSE @]]

\* One row of df_processed: the columns of _prepare_data and Custo_Tipo
FinancialRow(r, columns) ==
  [ Mes            |-> r.month,
    data_ok        |-> r.date_ok,
    Valor          |-> r.amount,
    valor_ok       |-> r.amount_ok,
    Tipo           |-> IF r.amount_ok /\ r.amount > 0 THEN "Receita" ELSE "Despesa",
    Valor_Absoluto |-> Abs(r.amount),
    Descricao      |-> IF "Descrição" \in columns THEN r.title ELSE "Sem descrição",
    Categoria      |-> IF "Categoria" \in columns THEN r.categoria ELSE "Outros",
    ID             |-> r.id,
    Custo_Tipo     |-> "Variável" ]

\* the cleaning steps after the check of the essential columns
CleanRows(rows, columns, is_nubank_data) ==
  IF "ID" \in columns
  THEN DropDuplicates(IF is_nubank_data
                      THEN ImproveNubankCategorization(IdentifyFixedCosts(DropNa(rows)))
                      ELSE IdentifyFixedCosts(DropNa(rows)), {})
  ELSE IF is_nubank_data
  THEN ImproveNubankCategorization(IdentifyFixedCosts(DropNa(rows)))
  ELSE IdentifyFixedCosts(DropNa(rows))

\* process_financial_data: st.stop() when Data or Valor is missing after the
\* mapping; rows with a NaT date or a NaN amount are dropped
ProcessFinancialData(input, is_nubank_data) ==
  IF input.rows = <<>> THEN Returned(<<>>)
  ELSE IF ~({"Data", "Valor"} \subseteq MappedColumns(input.columns))
  THEN Raised("StopException")
  ELSE Returned(CleanRows([i \in 1..Len(input.rows) |->
                             FinancialRow(input.rows[i],
                                          MappedColumns(input.columns))],
                          MappedColumns(input.columns), is_nubank_data))

(***************************************************************************)
(* ExpenseAnalyzer.expense_predictions (src/expense_analyser.py), on the   *)
(* frame process_data returns                                              *)
(***************************************************************************)
\* monthly_expenses.tail(3)
Tail3(series) ==
  IF Len(series) <= 3 THEN series ELSE SubSeq(series, Len(series) - 2, Len(series))

\* next_month_prediction: the linear forecast with at least 3 months, the
\* mean of the months there are otherwise
NextMonthPrediction(monthly_expenses) ==
  IF Len(monthly_expenses) >= 3 THEN LinearForecast(monthly_expenses)
  ELSE Mean(Tail3(monthly_expenses))

\* next_month_prediction > last_3_months: False below 3 months, where
\* the two are one value (or NaN); where they are equal in exact arithmetic
\* the rounding of np.polyfit decides
Tendencias(monthly_expenses) ==
  IF Len(monthly_expenses) < 3 THEN {"Baixa"}
  ELSE IF LinearForecast(monthly_expenses) = RollingMean3(monthly_expenses)
  THEN {"Alta", "Baixa"}
  ELSE IF LinearForecast(monthly_expenses).num * 3
            > (monthly_expenses[Len(monthly_expenses) - 2]
                 + monthly_expenses[Len(monthly_expenses) - 1]
                 + monthly_expenses[Len(monthly_expenses)])
              * LinearForecast(monthly_expenses).den
  THEN {"Alta"}
  ELSE {"Baixa"}

\* expense_predictions
ExpensePredictions(d, tendencia) ==
  [ media_3_meses        |-> Mean(Tail3(MonthlyTotals(Despesas(d)))),
    previsao_proximo_mes |-> NextMonthPrediction(MonthlyTotals(Despesas(d))),
    tendencia            |-> tendencia ]

(***************************************************************************)
(* Calls on the analyzer and the processor                                 *)
(***************************************************************************)
IsNubank == DetectNubankFormat(raw.columns)

\* what a call leaves in out
Result(op, r) == [op |-> op, raised |-> r.raised, result |-> r]

\* The methods of an analyzer; on one built from an empty frame
\* (pc = "empty") self.despesas is not set and reading it raises.
MonthlyInsightsCall ==
  /\ pc \in {"prepared", "empty"}
  /\ out' = Result("generate_monthly_insights", Returned(GenerateMonthlyInsights(df)))
  /\ UNCHANGED <<raw, pc, df, catVars>>

DetectAnomaliesCall ==
  /\ pc \in {"prepared", "empty"}
  /\ out' = Result("detect_anomalies",
                   IF pc = "empty" THEN Raised("AttributeError")
                   ELSE Returned(DetectAnomalies(df, IsNubank)))
  /\ UNCHANGED <<raw, pc, df, catVars>>

PredictionsCall ==
  /\ pc \in {"prepared", "empty"}
  /\ out' = Result("generate_predictions",
                   IF pc = "empty" THEN Raised("AttributeError")
                   ELSE Returned(GeneratePredictions(df, IsNubank)))
  /\ UNCHANGED <<raw, pc, df, catVars>>

HealthScoreCall ==
  /\ pc \in {"prepared", "empty"}
  /\ out' = Result("calculate_financial_health_score",
                   CalculateFinancialHealthScore(df, IsNubank))
  /\ UNCHANGED <<raw, pc, df, catVars>>

ReportCall ==
  /\ pc \in {"prepared", "empty"}
  /\ out' = Result("generate_comprehensive_report",
                   IF pc = "empty"
                   THEN Raised(IF "Data" \in raw.columns
                               THEN "AttributeError" ELSE "KeyError")
                   ELSE GenerateComprehensiveReport(df, IsNubank))
  /\ UNCHANGED <<raw, pc, df, catVars>>

\* process_data assigns its columns on the DataFrame it was given, up to the
\* statement that raises; drop_duplicates alone returns a new frame
ProcessDataCall ==
  /\ pc = "loaded"
  /\ LET r == ProcessData(raw)
     IN  /\ pc' = IF r.raised THEN "failed" ELSE "processed"
         /\ df' = IF r.raised THEN <<>> ELSE r.value
         /\ out' = Result("process_data", r)
  /\ raw' = [raw EXCEPT !.columns = AssignedColumns(raw)]
  /\ UNCHANGED catVars

ExpensePredictionsCall ==
  /\ pc = "processed"
  /\ \E tendencia \in Tendencias(MonthlyTotals(Despesas(df))) :
       out' = Result("expense_predictions",
                     Returned(ExpensePredictions(df, tendencia)))
  /\ UNCHANGED <<raw, pc, df, catVars>>

ProcessFinancialDataCall ==
  /\ pc = "loaded"
  /\ \E is_nubank_data \in BOOLEAN :
       LET r == ProcessFinancialData(raw, is_nubank_data)
       IN  /\ pc' = IF r.raised THEN "stopped" ELSE "cleaned"
           /\ df' = IF r.raised THEN <<>> ELSE r.value
           /\ out' = Result("process_financial_data", r)
  /\ UNCHANGED <<raw, catVars>>

CatIdle ==
  /\ alive = FALSE
  /\ chain = FALSE
  /\ cache = EmptyCache
  /\ cache_file = NoFile
  /\ ret = NoReturn
  /\ first_answer = NoHistory

InitAn ==
  /\ raw \in AnInputs
  /\ pc = "loaded"
  /\ df = <<>>
  /\ out = [op |-> "none"]
  /\ CatIdle

AnNext ==
  \/ NewAnalyzer
  \/ ProcessDataCall
  \/ ProcessFinancialDataCall
  \/ MonthlyInsightsCall
  \/ DetectAnomaliesCall
  \/ PredictionsCall
  \/ HealthScoreCall
  \/ ReportCall
  \/ ExpensePredictionsCall

SpecAn == InitAn /\ [][AnNext]_vars

(***************************************************************************)
(* Config (config/settings.py) and the pure functions it duplicates        *)
(***************************************************************************)
UpperChar(c) ==
  IF \E i \in 1..Len(LowerCase) : LowerCase[i] = c
  THEN UpperCase[CHOOSE i \in 1..Len(LowerCase) : LowerCase[i] = c]
  ELSE c

Upper(s) == [i \in 1..Len(s) |-> UpperChar(s[i])]

\* Config.NUBANK_PATTERNS, in dict (insertion) order
NUBANK_PATTERNS ==
  << [category |-> "Alimentação", keywords |-> <<
        <<"R","E","S","T","A","U","R","A","N","T","E">>,
        <<"L","A","N","C","H","O","N","E","T","E">>,
        <<"P","A","D","A","R","I","A">>,
        <<"P","I","Z","Z","A","R","I","A">>,
        <<"H","A","M","B","U","R","G","U","E","R">>,
        <<"S","U","B","W","A","Y">>,
        <<"M","C","D","O","N","A","L","D","S">>,
        <<"B","U","R","G","E","R"," ","K","I","N","G">>,
        <<"K","F","C">>,
        <<"P","I","Z","Z","A">>,
        <<"I","F","O","O","D">>,
        <<"U","B","E","R"," ","E","A","T","S">>,
        <<"R","A","P","P","I">>,
        <<"B","A","R"," ">>,
        <<"C","A","F","E">>,
        <<"C","A","F","E","T","E","R","I","A">>,
        <<"A","Ç","O","U","G","U","E">>,
        <<"S","O","R","V","E","T","E","R","I","A">>
     >>],
     [category |-> "Mercado", keywords |-> <<
        <<"S","U","P","E","R","M","E","R","C","A","D","O">>,
        <<"M","E","R","C","A","D","O">>,
        <<"A","T","A","C","A","D","A","O">>,
        <<"C","A","R","R","E","F","O","U","R">>,
        <<"E","X","T","R","A">>,
        <<"W","A","L","M","A","R","T">>,
        <<"B","I","S","T","E","K">>,
        <<"Z","A","F","F","A","R","I">>,
        <<"C","O","M","E","R","C","I","A","L">>,
        <<"M","E","R","C","E","A","R","I","A">>,
        <<"H","I","P","E","R","M","E","R","C","A","D","O">>,
        <<"B","I","G">>,
        <<"N","A","C","I","O","N","A","L">>,
        <<"A","N","G","E","L","O","N","I">>
     >>],
     [category |-> "Transporte", keywords |-> <<
        <<"P","O","S","T","O">>,
        <<"C","O","M","B","U","S","T","I","V","E","L">>,
        <<"S","H","E","L","L">>,
        <<"P","E","T","R","O","B","R","A","S">>,
        <<"I","P","I","R","A","N","G","A">>,
        <<"B","R"," ","D","I","S","T","R","I","B","U","I","D","O","R","A">>,
        <<"U","B","E","R">>,
        <<"T","A","X","I">>,
        <<"9","9">>,
        <<"O","N","I","B","U","S">>,
        <<"M","E","T","R","O">>,
        <<"E","S","T","A","C","I","O","N","A","M","E","N","T","O">>,
        <<"P","E","D","Á","G","I","O">>,
        <<"A","U","T","O","P","A","S","S">>
     >>],
     [category |-> "Saúde", keywords |-> <<
        <<"F","A","R","M","A","C","I","A">>,
        <<"D","R","O","G","A","R","I","A">>,
        <<"P","A","N","V","E","L">>,
        <<"D","R","O","G","A","S","I","L">>,
        <<"P","A","C","H","E","C","O">>,
        <<"U","N","I","M","E","D">>,
        <<"M","E","D","I","C","O">>,
        <<"H","O","S","P","I","T","A","L">>,
        <<"C","L","I","N","I","C","A">>,
        <<"L","A","B","O","R","A","T","O","R","I","O">>,
        <<"D","E","N","T","I","S","T","A">>,
        <<"P","A","G","U","E"," ","M","E","N","O","S">>,
        <<"U","L","T","R","A","F","A","R","M","A">>
     >>],
     [category |-> "Compras", keywords |-> <<
        <<"M","A","G","A","Z","I","N","E">>,
        <<"S","H","O","P","P","I","N","G">>,
        <<"L","O","J","A">>,
        <<"A","M","E","R","I","C","A","N","A","S">>,
        <<"S","U","B","M","A","R","I","N","O">>,
        <<"M","E","R","C","A","D","O","L","I","V","R","E">>,
        <<"A","M","A","Z","O","N">>,
        <<"A","L","I","E","X","P","R","E","S","S">>,
        <<"S","H","O","P","E","E">>,
        <<"R","E","N","N","E","R">>,
        <<"C","&","A">>,
        <<"Z","A","R","A">>,
        <<"H","&","M">>
     >>],
     [category |-> "Entretenimento", keywords |-> <<
        <<"C","I","N","E","M","A">>,
        <<"T","E","A","T","R","O">>,
        <<"S","H","O","W">>,
        <<"I","N","G","R","E","S","S","O">>,
        <<"B","A","L","A","D","A">>,
        <<"C","L","U","B","E">>,
        <<"P","A","R","Q","U","E">>,
        <<"M","U","S","E","U">>
     >>],
     [category |-> "Serviços", keywords |-> <<
        <<"B","A","N","C","O">>,
        <<"C","A","I","X","A">>,
        <<"B","R","A","D","E","S","C","O">>,
        <<"I","T","A","U">>,
        <<"S","A","N","T","A","N","D","E","R">>,
        <<"C","A","R","T","O","R","I","O">>,
        <<"D","E","S","P","A","C","H","A","N","T","E">>,
        <<"A","D","V","O","C","A","C","I","A">>,
        <<"C","O","N","T","A","B","I","L","I","D","A","D","E">>
     >>] >>

\* categorize_by_patterns: the first category, in table order, one of whose
\* patterns is a substring of the upper-cased description
CategorizeByPatterns(description) ==
  LET hits == { i \in 1..Len(NUBANK_PATTERNS) :
                  \E j \in 1..Len(NUBANK_PATTERNS[i].keywords) :
                     Contains(Upper(description), NUBANK_PATTERNS[i].keywords[j]) }
  IN  IF description = <<>> \/ hits = {} THEN "Outros"
      ELSE NUBANK_PATTERNS[Min(hits)].category

\* Config.HEALTH_SCORE_CLASSIFICATION, in dict (insertion) order
HEALTH_SCORE_CLASSIFICATION ==
  << [min_score |-> 80, max_score |-> 100, classification |-> "Excelente"],
     [min_score |-> 65, max_score |-> 79,  classification |-> "Boa"],
     [min_score |-> 50, max_score |-> 64,  classification |-> "Regular"],
     [min_score |-> 35, max_score |-> 49,  classification |-> "Ruim"],
     [min_score |-> 0,  max_score |-> 34,  classification |-> "Crítica"] >>

\* get_health_classification: the first range with min <= score <= max
GetHealthClassification(score) ==
  LET hits == { i \in 1..Len(HEALTH_SCORE_CLASSIFICATION) :
                  /\ FracGeq(score, HEALTH_SCORE_CLASSIFICATION[i].min_score)
                  /\ ~IsNaN(score)
                  /\ ~FracGt(score, HEALTH_SCORE_CLASSIFICATION[i].max_score) }
  IN  IF hits = {} THEN "Indefinida"
      ELSE HEALTH_SCORE_CLASSIFICATION[Min(hits)].classification

\* ---- inputs of the pure functions ----
\* descriptions with no keyword, with one, and with keywords of two
\* categories, in both cases of the letters
Descriptions ==
  { <<>>,
    <<"U","B","E","R">>,
    <<"U","b","e","r"," ","E","a","t","s">>,
    <<"m","e","r","c","a","d","o","l","i","v","r","e">>,
    <<"P","i","z","z","a"," ","S","h","o","w">>,
    <<"x","y","z">>,
    <<"s","a","l","a","r","i","o">>,
    <<"A","ç","o","u","g","u","e">>,
    <<"p","e","d","á","g","i","o">> }

\* the scores of [0, 100] in steps of 1/ScoreSteps
ScoreSteps == 2
Scores == { Frac(n, ScoreSteps) : n \in 0..(100 * ScoreSteps) }

RuleBasedCategorizationCall ==
  /\ \E description \in Descriptions, value \in {-1000, 1050} :
       out' = [op |-> "_rule_based_categorization", description |-> description,
               result |-> RuleBasedCategorization(description, value)]
  /\ UNCHANGED <<raw, pc, df, catVars>>

CategorizeByPatternsCall ==
  /\ \E description \in Descriptions :
       out' = [op |-> "categorize_by_patterns", description |-> description,
               result |-> CategorizeByPatterns(description)]
  /\ UNCHANGED <<raw, pc, df, catVars>>

ClassifyFinancialHealthCall ==
  /\ \E score \in Scores :
       out' = [op |-> "_classify_financial_health", score |-> score,
               result |-> ClassifyFinancialHealth(score)]
  /\ UNCHANGED <<raw, pc, df, catVars>>

GetHealthClassificationCall ==
  /\ \E score \in Scores :
       out' = [op |-> "get_health_classification", score |-> score,
               result |-> GetHealthClassification(score)]
  /\ UNCHANGED <<raw, pc, df, catVars>>

InitConfig == CatIdle /\ AnIdle

ConfigNext ==
  \/ RuleBasedCategorizationCall
  \/ CategorizeByPatternsCall
  \/ ClassifyFinancialHealthCall
  \/ GetHealthClassificationCall

SpecConfig == InitConfig /\ [][ConfigNext]_vars

(***************************************************************************)
(* Claims about the categorizer (checked under SpecCat)                    *)
(***************************************************************************)

\* C1. Categorization idempotence: on one categorizer, a categorize_single
\* call whose (normalized description, amount bucket) was already answered
\* by this categorizer returns the category of the first answer and does
\* not invoke the classifier (so the classifier runs at most once per key).
C1_Idempotence ==
  [][ (/\ ret'.op = "categorize_single"
       /\ NormKey(ret'.description, ret'.value) \in DOMAIN first_answer)
      => (/\ ret'.category = first_answer[NormKey(ret'.description, ret'.value)]
          /\ ~ret'.invoked) ]_vars

\* witness of C1: with a classifier configured, "uber" at 10.50 is answered
\* from the cache with the classifier's earlier answer for that key
C1_Witness ==
  /\ chain
  /\ ret.op = "categorize_single"
  /\ ret.description = <<"u","b","e","r">>
  /\ ~ret.invoked
  /\ ret.category = "Lazer"
  /\ NormKey(ret.description, ret.value) \in DOMAIN first_answer

\* C2. Fallback correctness: with no classifier configured, whatever the
\* cache holds (entries of this or of an earlier, saved session included),
\* categorize_single returns a member of the category enumeration.
C2_FallbackInEnumeration ==
  (ret.op = "categorize_single" /\ ~chain) => ret.category \in categories

\* witness of C2: without a classifier, a call is answered from a cache
\* entry that an earlier session's classifier produced and saved
C2_Witness ==
  /\ ~chain
  /\ ret.op = "categorize_single"
  /\ ret.category = "Lazer"

\* C3 as stated: when the classifier was invoked and its call failed or its
\* response is not a member of the enumeration, the result is the
\* rule-based category.  (Refuted: a response that is a member only once
\* its surrounding whitespace is stripped is accepted.)
C3_AsStated ==
  (/\ ret.op = "categorize_single"
   /\ ret.invoked
   /\ (ret.outcome.raises \/ Flatten(ret.outcome.text) \notin categories))
  => ret.category = RuleBasedCategorization(ret.description, ret.value)

\* C3 amended: when the classifier was invoked and its call failed or its
\* response, stripped of surrounding whitespace, is not a member of the
\* enumeration, categorize_single returns exactly the rule-based category;
\* otherwise it returns the stripped response.
C3_SoftFailure ==
  (ret.op = "categorize_single" /\ ret.invoked)
  => IF ret.outcome.raises \/ Flatten(Strip(ret.outcome.text)) \notin categories
     THEN ret.category = RuleBasedCategorization(ret.description, ret.value)
     ELSE ret.category = Flatten(Strip(ret.outcome.text))

\* witness of C3: an invalid response for "Uber " falls back to the rule
\* that matches it (Transporte)
C3_Witness ==
  /\ ret.op = "categorize_single"
  /\ ret.invoked
  /\ ~ret.outcome.raises
  /\ Flatten(ret.outcome.text) = "Comida"
  /\ ret.category = "Transporte"

\* C15 (as stated): constructing a categorizer always succeeds, whatever the
\* provider, the API key and the installed client libraries are, and a
\* categorizer whose classifier is disabled never invokes it.  It fails:
\* without langchain_openai the constructor raises NameError.
C15_ConfigurationNeverFatal ==
  /\ ret.op = "__init__" => (~ret.raised /\ alive)
  /\ (ret.op = "categorize_single" /\ ~chain) => ~ret.invoked

\* the failing case of C15: the constructor raised and left no categorizer
C15_Witness ==
  /\ ret.op = "__init__" /\ ret.raised
  /\ ~alive /\ ~chain

KeywordMatch(entry, description) ==
  \E j \in 1..Len(entry.keywords) :
     Contains(Lower(description), Lower(entry.keywords[j]))

FirstMatch(table, description, result) ==
  /\ \A i \in 1..Len(table) :
       (/\ KeywordMatch(table[i], description)
        /\ \A j \in 1..(i - 1) : ~KeywordMatch(table[j], description))
         => result = table[i].category
  /\ (\A i \in 1..Len(table) : ~KeywordMatch(table[i], description))
       => result = "Outros"

Band(score) ==
  IF FracGeq(score, 80) THEN "Excelente"
  ELSE IF FracGeq(score, 65) THEN "Boa"
  ELSE IF FracGeq(score, 50) THEN "Regular"
  ELSE IF FracGeq(score, 35) THEN "Ruim"
  ELSE "Crítica"

\* C20 (as stated): for every score of [0, 100] both
\* FinancialAnalyzer._classify_financial_health and
\* Config.get_health_classification return the band of the score
\* (Excelente from 80, Boa from 65, Regular from 50, Ruim from 35, Crítica
\* below).  It fails: Config.get_health_classification returns 'Indefinida'
\* for the scores strictly between 79 and 80, 64 and 65, 49 and 50, 34 and 35.
C20_Bands ==
  out.op \in {"_classify_financial_health", "get_health_classification"}
    => out.result = Band(out.score)

\* the failing case of C20: a score between 79 and 80 has no classification
C20_Witness ==
  /\ out.op = "get_health_classification"
  /\ FracGt(out.score, 79) /\ FracLt(out.score, 80)
  /\ out.result = "Indefinida"

(***************************************************************************)
(* Claims about the analyzer and the processor (checked under SpecAn)      *)
(***************************************************************************)
\* the value a call returned, and the alerts of one type among a list
Value == out.result.value
AlertsOf(alerts, type) == {a \in Range(alerts) : a.type = type}

\* C4 (as stated): for every non-empty set of valid transactions, a single
\* transaction included, calculate_financial_health_score returns a score
\* in [0, 100].  It fails: with no expense row the call raises
\* ZeroDivisionError.
C4_ScoreInRange ==
  (pc = "prepared" /\ df # <<>> /\ out.op = "calculate_financial_health_score")
    => /\ ~out.raised
       /\ Value["score"].den > 0
       /\ 0 <= Value["score"].num
       /\ Value["score"].num <= 100 * Value["score"].den

\* the failing case of C4: one income transaction, and the call raised
C4_Witness ==
  /\ pc = "prepared" /\ Len(df) = 1 /\ df[1].Tipo = "Receita"
  /\ out.op = "calculate_financial_health_score" /\ out.raised

\* C5 (as stated): every transaction that remains after normalization has
\* direction Receita iff amount > 0, Despesa otherwise, and an absolute
\* amount that is a number, equal to |amount| and non-negative.  It fails
\* for DataProcessor.process_data, which keeps the rows whose amount is NaN
\* (a NaN absolute amount is neither |amount| nor >= 0).
C5_SignDirection ==
  pc \in {"prepared", "processed"}
    => \A i \in 1..Len(df) :
         /\ df[i].valor_ok
         /\ df[i].Tipo = (IF df[i].Valor > 0 THEN "Receita" ELSE "Despesa")
         /\ df[i].Valor_Absoluto = Abs(df[i].Valor)
         /\ df[i].Valor_Absoluto >= 0

\* the failing case of C5: process_data returned a row with a NaN amount
C5_Witness ==
  /\ pc = "processed" /\ out.op = "process_data"
  /\ \E i \in 1..Len(df) : ~df[i].valor_ok

\* n * (total of the month at position i - mean of the monthly totals)
Deviation(series, i) == Len(series) * series[i] - SumSeq(series)

\* total > mean + (3/2) * sample standard deviation, on the deviations:
\* dev > 0 and 4 (n-1) dev^2 > 9 * sum of the squared deviations
StrictlyAbove(series, i) ==
  /\ Deviation(series, i) > 0
  /\ 4 * (Len(series) - 1) * Deviation(series, i) * Deviation(series, i)
       > 9 * SumSeq([j \in 1..Len(series) |->
                       Deviation(series, j) * Deviation(series, j)])

LowSavings(month) == {a \in AlertsOf(Value, "low_savings") : a.date = month}

\* C7 (as stated): for incomes [1000, 1000, 1000] and expenses
\* [900, 1100, 1000] the second month gets a critical low-savings alert
\* with rate -10%, and the first and third months get no low-savings alert.
C7_AsStated ==
  (raw = DeficitScenario /\ out.op = "detect_anomalies")
    => /\ \E a \in LowSavings(2) : a.severity = "critical" /\ a.value = Frac(-10, 1)
       /\ LowSavings(1) = {}
       /\ LowSavings(3) = {}

\* C7 (amended): the second month gets a critical low-savings alert with
\* rate -10%, the first month (rate exactly 10%) gets none, and the third
\* month (rate 0%) gets one low-savings alert, of severity medium.
C7_DeficitScenario ==
  (raw = DeficitScenario /\ out.op = "detect_anomalies")
    => /\ ~out.raised
       /\ \E a \in LowSavings(2) : a.severity = "critical" /\ a.value = Frac(-10, 1)
       /\ \A a \in LowSavings(2) : a.severity = "critical"
       /\ LowSavings(1) = {}
       /\ \E a \in LowSavings(3) : a.severity = "medium" /\ a.value = Frac(0, 1)
       /\ \A a \in LowSavings(3) : a.severity = "medium"

C7_Witness ==
  /\ raw = DeficitScenario /\ out.op = "detect_anomalies"
  /\ \E a \in LowSavings(2) : a.severity = "critical"
  /\ \E a \in LowSavings(3) : a.severity = "medium"

\* the expense total of a category, summed over the rows of self.df
Spent(c) ==
  SumSeq([i \in 1..Len(df) |->
            IF df[i].Valor <= 0 /\ df[i].Categoria = c THEN -df[i].Valor ELSE 0])

TotalSpent == SumSeq([i \in 1..Len(df) |-> IF df[i].Valor <= 0 THEN -df[i].Valor ELSE 0])

\* C8: a category gets a concentration alert, of severity medium, iff its
\* share of the total expense is strictly above 30%; for {Food 100,
\* Market 50, Housing 350} Housing is alerted and Food is not.
C8_Concentration ==
  (pc = "prepared" /\ out.op = "detect_anomalies")
    => /\ \A a \in AlertsOf(Value, "category_overspending") : a.severity = "medium"
       /\ \A c \in {df[i].Categoria : i \in 1..Len(df)} :
            (\E a \in AlertsOf(Value, "category_overspending") : a.category = c)
              <=> 10 * Spent(c) > 3 * TotalSpent
       /\ raw = ConcentrationScenario
            => /\ \E a \in AlertsOf(Value, "category_overspending") :
                    a.category = "Moradia" /\ a.value = Frac(350, 1)
               /\ \A a \in AlertsOf(Value, "category_overspending") :
                    a.category # "Alimentação"

C8_Witness ==
  /\ raw = ConcentrationScenario /\ out.op = "detect_anomalies"
  /\ \E a \in AlertsOf(Value, "category_overspending") :
       a.category = "Moradia" /\ a.severity = "medium"
  /\ 10 * Spent("Alimentação") = 2 * TotalSpent

\* the expense total of each month of self.df, a month without expense rows
\* counting 0, and of each month that has expense rows
ExpenseByMonth == TotalsOver(Despesas(df), MonthIndex(df))
ExpenseMonths == MonthlyTotals(Despesas(df))

\* the sign of the least-squares slope of series over x = 0 .. n-1 is the
\* sign of sum((2i - n - 1) * series[i])
SlopeSign(series) ==
  Sign(SumSeq([i \in 1..Len(series) |-> (2 * i - Len(series) - 1) * series[i]]))

\* predictions holds the mean of the last 3 monthly expense totals
MovingAverageRight(predictions) ==
  Len(ExpenseMonths) >= 3
    => /\ "proximo_mes_media" \in DOMAIN predictions
       /\ 3 * predictions["proximo_mes_media"].num
            = predictions["proximo_mes_media"].den
                * ( ExpenseMonths[Len(ExpenseMonths)]
                  + ExpenseMonths[Len(ExpenseMonths) - 1]
                  + ExpenseMonths[Len(ExpenseMonths) - 2] )

\* insights holds the trend of the monthly expenses, increasing iff the
\* least-squares slope is positive
DirectionRight(insights) ==
  Len(ExpenseMonths) >= 3
    => /\ "tendencia_despesas" \in DOMAIN insights
       /\ insights["tendencia_despesas"].direction = "increasing"
            <=> SlopeSign(ExpenseByMonth) > 0

\* C9: with at least 3 months of expense totals the moving-average estimate
\* is the mean of the last 3 monthly totals and the trend direction is
\* 'increasing' iff the least-squares slope over the month index is
\* positive; for [200, 220, 210, 230] the estimate is 220 and the direction
\* is increasing.
C9_Prediction ==
  /\ (pc = "prepared" /\ out.op = "generate_predictions")
       => /\ MovingAverageRight(Value)
          /\ raw = PredictionScenario => Value["proximo_mes_media"] = Frac(220, 1)
  /\ (pc = "prepared" /\ out.op = "generate_monthly_insights")
       => /\ DirectionRight(Value)
          /\ raw = PredictionScenario
               => Value["tendencia_despesas"].direction = "increasing"
  /\ (out.op = "generate_comprehensive_report" /\ ~out.raised)
       => /\ MovingAverageRight(Value["predictions"])
          /\ DirectionRight(Value["insights"])

C9_Witness ==
  /\ raw = PredictionScenario
  /\ out.op = "generate_comprehensive_report" /\ ~out.raised
  /\ ExpenseMonths = <<200, 220, 210, 230>>
  /\ Value["predictions"]["proximo_mes_media"] = Frac(220, 1)
  /\ Value["insights"]["tendencia_despesas"].direction = "increasing"

\* C10: in every report produced, summary.net_balance is
\* summary.total_income - summary.total_expenses, the two totals being the
\* sums of the absolute amounts of the income rows and of the expense rows.
C10_NetBalance ==
  (out.op = "generate_comprehensive_report" /\ ~out.raised)
    => /\ Value["summary"].net_balance
            = Value["summary"].total_income - Value["summary"].total_expenses
       /\ Value["summary"].total_income
            = SumSeq([i \in 1..Len(df) |-> IF df[i].Valor > 0 THEN df[i].Valor ELSE 0])
       /\ Value["summary"].total_expenses = TotalSpent

\* a report over income and expense rows with a negative balance
C10_Witness ==
  /\ out.op = "generate_comprehensive_report" /\ ~out.raised
  /\ Value["summary"].total_income > 0
  /\ Value["summary"].total_expenses > Value["summary"].total_income
  /\ Value["summary"].net_balance < 0

\* a < b on floats (False when either is NaN or infinite)
FracLess(a, b) == a.den > 0 /\ b.den > 0 /\ a.num * b.den < b.num * a.den

\* the expense distributions the score of a frame is compared with: totals
\* of up to MaxTotal over any non-empty set of three categories
MaxTotal == 4

Distributions ==
  UNION {[S -> 0..MaxTotal] :
           S \in (SUBSET {"Alimentação", "Moradia", "Transporte"}) \ {{}}}

DiversificationOf(result) == result["components"]["diversificacao"].score

\* C11. Diversification monotonicity: the diversification sub-score of the
\* health score of a non-empty frame lies in [0, 20], and compared with any other expense
\* distribution B, a frame whose category totals have the higher Gini index
\* has a sub-score no greater than B's (and the lower Gini, no smaller).
C11_Diversification ==
  (out.op = "calculate_financial_health_score" /\ ~out.raised /\ df # <<>>)
    => /\ FracGeq(DiversificationOf(Value), 0)
       /\ ~FracGt(DiversificationOf(Value), 20)
       /\ \A B \in Distributions :
            /\ FracLess(Gini(B), Gini(TotalsBy(Despesas(df), "Categoria")))
                 => ~FracLess(DiversificationScore(Gini(B)), DiversificationOf(Value))
            /\ FracLess(Gini(TotalsBy(Despesas(df), "Categoria")), Gini(B))
                 => ~FracLess(DiversificationOf(Value), DiversificationScore(Gini(B)))

\* witness of C11: a scored frame whose expenses are unevenly spread over
\* its categories (sub-score strictly between 0 and 20), with a less and a
\* more concentrated distribution to compare with
C11_Witness ==
  /\ out.op = "calculate_financial_health_score"
  /\ ~out.raised
  /\ df # <<>>
  /\ FracGt(DiversificationOf(Value), 0)
  /\ FracLt(DiversificationOf(Value), 20)
  /\ \E B \in Distributions :
       FracLess(Gini(B), Gini(TotalsBy(Despesas(df), "Categoria")))
  /\ \E B \in Distributions :
       FracLess(Gini(TotalsBy(Despesas(df), "Categoria")), Gini(B))

\* the three normalizations, and the states that hold their result
Normalizers == {"__init__", "process_data", "process_financial_data"}
Normalized == pc \in {"prepared", "processed", "cleaned"}

\* C12 (as stated): a row whose date or amount cannot be parsed is dropped
\* without failing the batch: a batch that has every standard column is
\* never failed, and every row that remains after normalization has a date
\* and a numeric amount.  It fails for DataProcessor.process_data, which
\* raises on a date it cannot parse and keeps the rows whose amount is NaN.
C12_ParseFailures ==
  /\ (out.op \in Normalizers /\ TraditionalColumns \subseteq raw.columns)
       => ~out.raised
  /\ Normalized => \A i \in 1..Len(df) : df[i].data_ok /\ df[i].valor_ok

\* the failing case of C12: process_data raised on a batch that has every
\* column and one row whose date is not a date
C12_Witness ==
  /\ out.op = "process_data" /\ out.raised /\ pc = "failed"
  /\ TraditionalColumns \subseteq raw.columns
  /\ \E i \in 1..Len(raw.rows) : ~raw.rows[i].date_ok

\* the input rows a normalization does not drop for a date or an amount
\* (process_data drops none), and among them the first of each id
Survives(r) == out.op = "process_data" \/ (r.date_ok /\ r.amount_ok)

FirstOccurrences ==
  {k \in 1..Len(raw.rows) :
     /\ Survives(raw.rows[k])
     /\ \A j \in 1..(k - 1) :
          Survives(raw.rows[j]) => raw.rows[j].id # raw.rows[k].id}

DateInferred ==
  IF out.op = "process_financial_data"
  THEN raw.columns \cap {"Data", "Date", "date"} # {}
  ELSE IsNubank \/ "Data" \in raw.columns

AmountInferred ==
  IF out.op = "process_financial_data"
  THEN raw.columns \cap {"Valor", "Amount", "amount"} # {}
  ELSE IsNubank \/ "Valor" \in raw.columns

\* C14 (as stated): process_financial_data and FinancialAnalyzer reject a
\* batch only if both the date role and the amount role cannot be inferred.
C14_AsStated ==
  (out.op \in {"__init__", "process_financial_data"} /\ out.raised)
    => (~DateInferred /\ ~AmountInferred)

\* C14 (amended): process_financial_data and FinancialAnalyzer reject a
\* batch exactly when it is not empty and the date role or the amount role
\* cannot be inferred from the column names, whatever its rows are.
C14_SchemaRejection ==
  out.op \in {"__init__", "process_financial_data"}
    => (out.raised <=> (raw.rows # <<>> /\ (~DateInferred \/ ~AmountInferred)))

\* witness of C14: a batch with rows and an amount column but no date
\* column is rejected by process_financial_data
C14_Witness ==
  /\ out.op = "process_financial_data" /\ out.raised
  /\ raw.rows # <<>>
  /\ AmountInferred /\ ~DateInferred

\* C16 (as stated): for every non-empty set of valid transactions, with or
\* without expense rows, income rows or three months of data,
\* generate_comprehensive_report completes with its summary, insights,
\* alerts, predictions and health score, and the spending patterns are
\* empty exactly when there is no expense row.  It fails: with no expense
\* row the health score, and so the report, raises ZeroDivisionError.
C16_ReportCompletes ==
  (pc = "prepared" /\ df # <<>> /\ out.op = "generate_comprehensive_report")
    => /\ ~out.raised
       /\ {"summary", "insights", "alerts", "patterns", "predictions",
           "health_score"} \subseteq DOMAIN Value
       /\ Value["summary"].total_transactions = Len(df)
       /\ (Value["patterns"] = NoKeys) <=> (Despesas(df) = <<>>)

\* the failing case of C16: the report of a frame of income rows raised
C16_Witness ==
  /\ pc = "prepared" /\ df # <<>> /\ Despesas(df) = <<>>
  /\ out.op = "generate_comprehensive_report" /\ out.raised
  /\ out.result.error = "ZeroDivisionError"

\* C17 (as stated): no step of the normalizers and of the analyzer changes
\* the transaction list the caller passed in (no row or field added, removed
\* or altered), nor the classification cache.  It fails:
\* DataProcessor.process_data assigns its columns on the caller's DataFrame.
C17_Purity == [][raw' = raw /\ cache' = cache]_vars

\* the failing case of C17: after process_data the caller's DataFrame holds
\* the columns Tipo and Valor_Absoluto
C17_Witness ==
  /\ out.op = "process_data"
  /\ {"Tipo", "Valor_Absoluto"} \subseteq raw.columns

\* the number of months with an expense row
ExpenseMonthCount == Cardinality({r.Mes : r \in Range(Despesas(df))})

\* C21 (as stated): a health-score component whose data is missing (fewer
\* than 2 months for the spending control, fewer than 3 months for the
\* stability, no expense row) earns 0 points, the score is the sum of the
\* earned points over the full 100, and the computation does not fail.  It
\* fails: with no expense row the call raises ZeroDivisionError.
C21_MissingDataZeroes ==
  (pc = "prepared" /\ df # <<>> /\ out.op = "calculate_financial_health_score")
    => /\ ~out.raised
       /\ Value["score"] = TotalScore(Value["components"])
       /\ ExpenseMonthCount < 3
            => ScoreOf(Value["components"], "estabilidade") = Frac(0, 1)
       /\ (Receitas(df) = <<>> /\ ExpenseMonthCount < 2)
            => ScoreOf(Value["components"], "controle_gastos") = Frac(0, 1)

\* the failing case of C21: two income rows of different months and no
\* expense row, and the call raised
C21_Witness ==
  /\ pc = "prepared" /\ Len(df) = 2 /\ Despesas(df) = <<>>
  /\ df[1].Mes # df[2].Mes
  /\ out.op = "calculate_financial_health_score" /\ out.raised


\* the expense rows whose absolute amount is strictly above the 95th
\* percentile of the absolute expense amounts
AbovePercentile ==
  {i \in 1..Len(Despesas(df)) :
     20 * Despesas(df)[i].Valor_Absoluto > Quantile95x20(Amounts(Despesas(df)))}

\* the positions of the large-transaction alerts in a list of alerts
LargeAt(alerts) == {k \in 1..Len(alerts) : alerts[k].type = "large_transaction"}

\* C22 (as stated): for every transaction set with expenses, in either
\* input shape, detect_anomalies emits one large-transaction alert, of
\* severity medium, for each expense whose absolute amount is strictly above
\* the 95th percentile of the absolute expense amounts, and none for any
\* other expense.  It fails: the check runs only for the Nubank shape.
C22_LargeTransactions ==
  (pc = "prepared" /\ Despesas(df) # <<>> /\ out.op = "detect_anomalies")
    => /\ ~out.raised
       /\ \A k \in LargeAt(Value) : Value[k].severity = "medium"
       /\ Cardinality(LargeAt(Value)) = Cardinality(AbovePercentile)
       /\ \A i \in AbovePercentile :
            \E k \in LargeAt(Value) :
              Value[k].value = Frac(Despesas(df)[i].Valor_Absoluto, 1)

\* the failing case of C22: a frame with the Data / Valor columns, an
\* expense above the percentile and no large-transaction alert
C22_Witness ==
  /\ pc = "prepared" /\ ~IsNubank /\ out.op = "detect_anomalies"
  /\ AbovePercentile # {}
  /\ LargeAt(Value) = {}


\* the non-zero monthly totals of a merchant (description), in month order
MerchantMonths(e) ==
  SelectSeq(TotalsOver(Where(Despesas(df), "Descricao", e), MonthIndex(Despesas(df))),
            LAMBDA v : v # 0)

\* the trend over a series is increasing and its change from the first to
\* the last value exceeds 50%
Growing(series) ==
  /\ SlopeSign(series) = 1
  /\ 100 * (series[Len(series)] - series[1]) > 50 * Abs(series[1])

\* the merchants with at least 3 non-zero months whose spend is growing
GrowingMerchants ==
  {e \in {r.Descricao : r \in Range(Despesas(df))} :
     Len(MerchantMonths(e)) >= 3 /\ Growing(MerchantMonths(e))}

\* the positions of the growth alerts in a list of alerts
GrowthAt(alerts) == {k \in 1..Len(alerts) : alerts[k].type = "establishment_growth"}

\* C23 (as stated): whatever the input shape and the number of expense rows,
\* detect_anomalies emits a growth alert, of severity low, for a merchant
\* with at least 3 months of non-zero spend iff the trend over its non-zero
\* monthly totals is increasing and the change from the first to the last
\* exceeds 50%.  It fails: the check runs only for the Nubank shape and only
\* with more than 20 expense rows.
C23_MerchantGrowth ==
  (pc = "prepared" /\ out.op = "detect_anomalies")
    => /\ ~out.raised
       /\ \A k \in GrowthAt(Value) : Value[k].severity = "low"
       /\ Cardinality(GrowthAt(Value)) = Cardinality(GrowingMerchants)
       /\ \A e \in GrowingMerchants :
            \E k \in GrowthAt(Value) :
              Value[k].value
                = Frac(100 * (MerchantMonths(e)[Len(MerchantMonths(e))]
                                - MerchantMonths(e)[1]),
                       MerchantMonths(e)[1])

\* the failing case of C23: a merchant whose spend grew from 1 to 2 over
\* three months, in a set of three expense rows, and no growth alert
C23_Witness ==
  /\ pc = "prepared" /\ out.op = "detect_anomalies"
  /\ Len(Despesas(df)) = 3
  /\ MerchantMonths("uber") = <<1, 1, 2>>
  /\ GrowthAt(Value) = {}


\* C24 (as stated): with fewer than 3 months of expense data the
\* moving-average and the linear-trend next-month estimates are absent from
\* the prediction output, never a value computed from fewer than 3 months.
\* It fails for ExpenseAnalyzer.expense_predictions, which always reports
\* both: the mean of the months there are, or NaN when there is none.
C24_InsufficientData ==
  /\ (pc = "prepared" /\ out.op = "generate_predictions"
        /\ Len(MonthlyTotals(Despesas(df))) < 3)
       => /\ ~out.raised
          /\ "proximo_mes_media" \notin DOMAIN Value
          /\ "proximo_mes_tendencia" \notin DOMAIN Value
  /\ (pc = "processed" /\ out.op = "expense_predictions"
        /\ Len(MonthlyTotals(Despesas(df))) < 3)
       => /\ ~out.raised
          /\ "media_3_meses" \notin DOMAIN Value
          /\ "previsao_proximo_mes" \notin DOMAIN Value

\* the failing case of C24: two months of expenses, 2 and 1, and both
\* estimates reported as their mean
C24_Witness ==
  /\ pc = "processed" /\ out.op = "expense_predictions"
  /\ MonthlyTotals(Despesas(df)) = <<2, 1>>
  /\ Value.media_3_meses = Frac(3, 2)
  /\ Value.previsao_proximo_mes = Frac(3, 2)


\* the monthly totals of the expenses whose column col holds key, and the
\* number of them that are not zero
SeriesOf(col, key) == MonthlyTotals(Where(Despesas(df), col, key))
NonZeroMonths(col, key) == Len(SelectSeq(SeriesOf(col, key), LAMBDA v : v # 0))

\* every forecast of a dict is for a series of at least 3 non-zero months
\* and is the mean of its last 3 monthly totals
ForecastsRight(forecasts, col) ==
  \A k \in DOMAIN forecasts :
    /\ NonZeroMonths(col, k) >= 3
    /\ 3 * forecasts[k].num
         = forecasts[k].den * ( SeriesOf(col, k)[Len(SeriesOf(col, k)) - 2]
                                + SeriesOf(col, k)[Len(SeriesOf(col, k)) - 1]
                                + SeriesOf(col, k)[Len(SeriesOf(col, k))] )

\* C25 (as stated): generate_predictions includes a forecast for a category
\* or a frequent merchant only where that series has at least 3 non-zero
\* months, and its value is the mean of the last 3 monthly totals of the
\* series.  It fails for the merchants: a merchant gets a forecast from 2
\* months on, and its value is the mean of all its months.
C25_SeriesForecasts ==
  (pc = "prepared" /\ out.op = "generate_predictions")
    => /\ ~out.raised
       /\ ForecastsRight(Value["por_categoria"], "Categoria")
       /\ IsNubank
            => ForecastsRight(Value["estabelecimentos_frequentes"], "Descricao")

\* the failing case of C25: a merchant with two months of expenses, 2 and
\* 1, and a forecast of 1.5
C25_Witness ==
  /\ pc = "prepared" /\ IsNubank /\ out.op = "generate_predictions"
  /\ SeriesOf("Descricao", "uber") = <<2, 1>>
  /\ "uber" \in DOMAIN Value["estabelecimentos_frequentes"]
  /\ Value["estabelecimentos_frequentes"]["uber"] = Frac(3, 2)


(***************************************************************************)
(* Claims about categorize_dataframe (checked under SpecCat)               *)
(***************************************************************************)
\* the row's category is missing, empty or 'Outros'
NeedsCategory(row) == row.Categoria \in {NaNCat, "", "Outros"}

\* C26. Batch categorization never aborts: categorize_dataframe returns, and
\* every row that needed a category ends with one of the enumeration; a row
\* whose categorization failed gets 'Outros', and every other row that
\* needed a category, the rows after a failed one included, gets the
\* category the categorizer holds for it.
C26_BatchNeverAborts ==
  ret.op = "categorize_dataframe"
    => /\ Len(ret.rows) = Len(ret.given)
       /\ \A i \in 1..Len(ret.given) :
            NeedsCategory(ret.given[i])
              => /\ ret.rows[i].Categoria \in categories
                 /\ ~ret.given[i].valor_ok => ret.rows[i].Categoria = "Outros"
                 /\ ret.given[i].valor_ok
                      => ret.rows[i].Categoria
                           = cache[CreateCacheKey(ret.given[i].Descricao,
                                                  ret.given[i].Valor)]

\* witness of C26: the first row failed, and the second, which had no
\* category, got 'Transporte'
C26_Witness ==
  /\ ret.op = "categorize_dataframe" /\ Len(ret.given) = 2
  /\ NeedsCategory(ret.given[1]) /\ ~ret.given[1].valor_ok
  /\ ret.rows[1].Categoria = "Outros"
  /\ ret.given[2].Categoria = NaNCat /\ ret.given[2].valor_ok
  /\ ret.rows[2].Categoria = "Transporte"


\* C27 (as stated): after categorize_dataframe the category of every row of
\* the result is a member of the categorizer's enumeration, whatever
\* categories the input rows carried.  It fails: a row that came with a
\* category outside the enumeration is not looked at and keeps it.
C27_ClosedEnumeration ==
  ret.op = "categorize_dataframe"
    => \A i \in 1..Len(ret.rows) : ret.rows[i].Categoria \in categories

\* the failing case of C27: a row given with 'Viagem' is returned with it,
\* next to a row that was categorized
C27_Witness ==
  /\ ret.op = "categorize_dataframe" /\ Len(ret.given) = 2
  /\ ret.given[1].Categoria = NaNCat /\ ret.rows[1].Categoria \in categories
  /\ ret.given[2].Categoria = "Viagem" /\ ret.rows[2].Categoria = "Viagem"


\* every entry of the cache is still there, with its category, after a step
EntriesKept ==
  \A k \in DOMAIN cache : k \in DOMAIN cache' /\ cache'[k] = cache[k]

\* the keys a step added to the cache
NewKeys == DOMAIN cache' \ DOMAIN cache

\* the rows of a batch that categorize_single is called for
RowsAsked(rows) ==
  {i \in 1..Len(rows) : NeedsCategory(rows[i]) /\ rows[i].valor_ok}

\* the cache keys of the input of a call
OwnKeys(call) ==
  IF call.op = "categorize_single"
  THEN {CreateCacheKey(call.description, call.value)}
  ELSE {CreateCacheKey(call.given[i].Descricao, call.given[i].Valor) :
          i \in RowsAsked(call.given)}

\* C28 (as stated): a categorize_single or categorize_dataframe call on a
\* categorizer removes no cache entry, changes no entry's category and adds
\* at most one new key, the key of its own input.
C28_AsStated ==
  [][ ret'.op \in {"categorize_single", "categorize_dataframe"}
        => /\ EntriesKept
           /\ NewKeys \subseteq OwnKeys(ret')
           /\ Cardinality(NewKeys) <= 1 ]_vars

\* C28 (amended): such a call removes no cache entry and changes no entry's
\* category; categorize_single adds at most one new key, the key of its
\* input, and categorize_dataframe adds at most one new key for each row it
\* asks categorize_single about, the key of that row.
C28_CacheMonotone ==
  [][ ret'.op \in {"categorize_single", "categorize_dataframe"}
        => /\ EntriesKept
           /\ NewKeys \subseteq OwnKeys(ret')
           /\ ret'.op = "categorize_single" => Cardinality(NewKeys) <= 1
           /\ ret'.op = "categorize_dataframe"
                => Cardinality(NewKeys) <= Cardinality(RowsAsked(ret'.given)) ]_vars

\* witness of C28: a batch of two rows with different keys, after which the
\* cache holds exactly those two keys
C28_Witness ==
  /\ ret.op = "categorize_dataframe" /\ Len(ret.given) = 2
  /\ RowsAsked(ret.given) = {1, 2}
  /\ Cardinality(OwnKeys(ret)) = 2
  /\ DOMAIN cache = OwnKeys(ret)


\* C29. Frame of batch categorization: categorize_dataframe returns as many
\* rows as it was given, in the same order, each with the fields it had
\* apart from the category; and a row that came with a category other than
\* missing, empty or 'Outros' keeps that category.
C29_BatchFrame ==
  ret.op = "categorize_dataframe"
    => /\ Len(ret.rows) = Len(ret.given)
       /\ \A i \in 1..Len(ret.given) :
            /\ [ret.rows[i] EXCEPT !.Categoria = ret.given[i].Categoria] = ret.given[i]
            /\ ret.given[i].Categoria \notin {NaNCat, "", "Outros"}
                 => ret.rows[i].Categoria = ret.given[i].Categoria

\* witness of C29: the first row came with 'Moradia' and keeps it though the
\* rules say 'Transporte', which the second row, given without a category,
\* gets
C29_Witness ==
  /\ ret.op = "categorize_dataframe" /\ Len(ret.given) = 2
  /\ ret.given[1].Categoria = "Moradia" /\ ret.rows[1].Categoria = "Moradia"
  /\ ret.given[2].Categoria = NaNCat /\ ret.rows[2].Categoria = "Transporte"
  /\ ret.given[1].Descricao = ret.given[2].Descricao


\* the categories of the expenses
ExpenseCategories == {r.Categoria : r \in Range(Despesas(df))}

\* C30 (as stated): when all the expenses fall in exactly one category the
\* Gini index is 0 and the diversification sub-score of the health score is
\* the maximum, 20.  It fails when the expenses of that category total 0:
\* the shares are 0 / 0, the Gini index is NaN and the sub-score is 0.
C30_SingleCategory ==
  (pc = "prepared" /\ out.op = "calculate_financial_health_score"
     /\ Cardinality(ExpenseCategories) = 1)
    => /\ ~out.raised
       /\ Gini(TotalsBy(Despesas(df), "Categoria")) = Frac(0, 1)
       /\ DiversificationOf(Value) = Frac(20, 1)

\* the failing case of C30: one expense row, of amount 0, and a
\* diversification sub-score of 0
C30_Witness ==
  /\ pc = "prepared" /\ out.op = "calculate_financial_health_score" /\ ~out.raised
  /\ Len(Despesas(df)) = 1 /\ Despesas(df)[1].Valor = 0
  /\ IsNaN(Gini(TotalsBy(Despesas(df), "Categoria")))
  /\ DiversificationOf(Value) = Frac(0, 1)

====
